---- MODULE Spec2Model ----
(***************************************************************************)
(* The realtime fan-out engine of the driver location system:             *)
(* RealtimeService (subscription ledger and caches), its Redis bridge,    *)
(* and the ClientGateway push scheduler of realtime-service.              *)
(*                                                                         *)
(* Every async method is a task.  A step of a task is the synchronous     *)
(* code between two awaits on real I/O (a Redis command, an HTTP call of  *)
(* the driver service): Node runs it to completion, so it is one atomic   *)
(* action.  An await on a promise that is already settled (an async       *)
(* method that returned without doing I/O) only defers to the microtask   *)
(* queue, before any socket event, timer or I/O completion, and is part   *)
(* of the step.                                                            *)
(***************************************************************************)
EXTENDS Integers, Sequences, FiniteSets, TLC

VARIABLES
  clientSubscriptions,  \* RealtimeService.clientSubscriptions: clientId -> driverId
  driverSubscribers,    \* RealtimeService.driverSubscribers: driverId -> set of clientId
  locationCache,        \* RealtimeService.locationCache: driverId -> DriverLocation
  profileCache,         \* RealtimeService.profileCache: driverId -> DriverProfile
  busSubscribed,        \* per-driver channels the Redis subscriber connection holds
  busQueue,             \* tasks awaiting a reply on the subscriber connection, oldest first
  inbox,                \* messages Redis has still to hand to the 'message' listener
  tasks,                \* the async calls in flight, one record per task slot
  started,              \* the number of calls started so far
  accepted,             \* per driver, the last sample a driver socket handed in
  connected,            \* client sockets that are still connected
  clientIntervals,      \* ClientGateway.clientIntervals: clientId -> timer handle
  activeTimers,         \* the setInterval timers that are not cleared
  lastRequest,          \* per client, the last message the client sent
  eventsSince,          \* per client, the events delivered since that message
  pushed,               \* per client, the events delivered to its socket, oldest first
  driverSockets,        \* DriverGateway.driverSockets: socketId -> driverId
  tokenValidationTimers, \* DriverGateway.tokenValidationTimers: socketId -> timer handle
  tokenTimers,          \* the token validation timers that are not cleared
  driverConnected,      \* driver sockets that are still connected
  validTokens,          \* the tokens the auth service accepts
  socketEvents,         \* per driver socket, the events sent to it
  locationUpdateHandler, \* RedisRealtimeMessaging.locationUpdateHandler, when set
  registrations,        \* the handlers onDriverLocationUpdate was called with, oldest first
  now                   \* Date.now(), in milliseconds

vars == <<clientSubscriptions, driverSubscribers, locationCache, profileCache,
          busSubscribed, busQueue, inbox, tasks, started, accepted, connected,
          clientIntervals,
          activeTimers, lastRequest, eventsSince, pushed, driverSockets,
          tokenValidationTimers, tokenTimers, driverConnected, validTokens,
          socketEvents, now, locationUpdateHandler, registrations>>

coreVars == <<clientSubscriptions, driverSubscribers, locationCache, profileCache,
              busSubscribed, busQueue, inbox, tasks, started, accepted>>

gatewayVars == <<connected, clientIntervals, activeTimers, lastRequest, eventsSince, pushed>>

driverVars == <<driverSockets, tokenValidationTimers, tokenTimers, driverConnected,
                validTokens, socketEvents>>

handlerVars == <<locationUpdateHandler, registrations>>

(***************************************************************************)
(* Bounds of the model.                                                    *)
(***************************************************************************)
NumClients == 2
NumDrivers == 2
NumTasks == 2
NumCoords == 1
MaxSteps == 1
MaxCalls == 3
MaxSerialCalls == 5
MaxGatewayCalls == 2
NumSockets == 1
NumTokens == 2

Clients == 1..NumClients
Drivers == 1..NumDrivers
Tasks == 1..NumTasks
Coords == 1..NumCoords
Sockets == 1..NumSockets
Tokens == 1..NumTokens
NumHandlers == 2
MaxRegistrations == 3
Handlers == 1..NumHandlers
\* The handler the constructor of RealtimeService registers:
\* handleDriverLocationUpdate.
CoreHandler == 1

(***************************************************************************)
(* Program constants.                                                      *)
(***************************************************************************)
TEN_MINUTES == 600000
TOKEN_VALIDATION_INTERVAL == 60000
ONLINE_UPDATE_INTERVAL == 5000
OFFLINE_UPDATE_INTERVAL == 60000

\* The clock advances in steps of ten minutes, MaxSteps times.
TimeStep == TEN_MINUTES
Times == {i * TimeStep : i \in 0..MaxSteps}

(***************************************************************************)
(* Map helpers (a JavaScript Map is a function with a finite domain).      *)
(***************************************************************************)
Has(m, key) == key \in DOMAIN m
Put(m, key, v) == [x \in DOMAIN m \cup {key} |-> IF x = key THEN v ELSE m[x]]
Del(m, key) == [x \in DOMAIN m \ {key} |-> m[x]]
EmptyMap == [x \in {} |-> 0]
\* Map.get: <<>> is undefined.
Lookup(m, key) == IF Has(m, key) THEN <<m[key]>> ELSE <<>>

\* DriverLocation: coordinates and timestamp.
\* entity: the object is an instance of the class and has its methods.
DriverLocation(d, c, ts) == [driverId |-> d, coord |-> c, timestamp |-> ts, entity |-> TRUE]

\* JSON.stringify of a location: the text carries the data fields only.
JSONStringify(s) == [driverId |-> s.driverId, coord |-> s.coord, timestamp |-> s.timestamp]

\* JSON.parse of that text: a plain object, not an instance of the class.
JSONParse(m) ==
  [driverId |-> m.driverId, coord |-> m.coord, timestamp |-> m.timestamp, entity |-> FALSE]
\* DriverProfile: name and image are fixed per driver.
DriverProfile(d) == [id |-> d]

\* A field of a message body: a JSON number, or a value of another type.
Number(n) == [type |-> "number", value |-> n]
NotANumber == [type |-> "string", value |-> 0]

\* The body of update-location; extra: the fields it carries beside the two
\* the handler declares.
LocationData(lat, lon) == [latitude |-> lat, longitude |-> lon, extra |-> <<>>]

\* A body that names a driver and a time of its own.
ForgedLocationData(lat, lon, d, ts) ==
  [LocationData(lat, lon) EXCEPT !.extra = <<[driverId |-> d, timestamp |-> ts]>>]

\* The pair of coordinates of a sample as one number.
Coordinates(lat, lon) == lat * 1000 + lon

NoCounts == [d \in Drivers |-> 0]

\* A task slot that runs nothing.
IdleTask ==
  [kind |-> "idle", pc |-> "idle", client |-> 1, driver |-> 1, prev |-> <<>>,
   sample |-> DriverLocation(1, 1, 0), watched |-> FALSE, late |-> FALSE,
   location |-> <<>>, profile |-> <<>>, seen |-> <<>>, socket |-> 1, token |-> 0,
   handler |-> 0,
   validation |-> <<>>, data |-> LocationData(Number(0), Number(0)), result |-> "none",
   asked |-> {}, before |-> <<>>, got |-> [profile |-> "none", location |-> "none"],
   nSubscribe |-> NoCounts, nUnsubscribe |-> NoCounts, nPublish |-> NoCounts,
   nFilled |-> NoCounts, nEmptied |-> NoCounts]

\* The timers and the emitted events of ClientGateway as one value.
Gateway ==
  [intervals |-> clientIntervals, timers |-> activeTimers, events |-> eventsSince,
   pushed |-> pushed]

\* The four maps of RealtimeService as one value.
Core ==
  [cs |-> clientSubscriptions, ds |-> driverSubscribers,
   loc |-> locationCache, prof |-> profileCache]

\* The observers of a driver: the empty set when the driver has no entry.
Observers(ds, d) == IF Has(ds, d) THEN ds[d] ELSE {}

NoCall == <<>>
BusCall(op, d, s) == <<[op |-> op, driver |-> d, sample |-> s]>>

(***************************************************************************)
(* RealtimeService.  Each operator is one synchronous stretch of a method: *)
(* it takes the four maps k and yields the maps after it, the await the    *)
(* method then waits on (pc) and the Redis command it issued (bus).        *)
(***************************************************************************)
Outcome(k, pc, bus) == [k |-> k, pc |-> pc, bus |-> bus]

\* A faulty unsubscribeClientFromDriver: it forgets the binding and leaves the
\* client in the driver's set.
UnsubscribeKeepsMember(k, c, d) ==
  Outcome([k EXCEPT !.cs = Del(k.cs, c)], "return", NoCall)

\* unsubscribeClientFromDriver up to the await of the Redis unsubscribe:
\* pc "awaitBusUnsubscribe" when the command was issued, "return" when the
\* method ran to its end.
UnsubscribeClientFromDriver(k, c, d) ==
  IF Has(k.ds, d)
  THEN LET rest == k.ds[d] \ {c}
           ds1 == [k.ds EXCEPT ![d] = rest]
       IN IF rest = {}
          THEN Outcome([k EXCEPT !.ds = ds1], "awaitBusUnsubscribe",
                       BusCall("unsubscribe", d, IdleTask.sample))
          ELSE Outcome([k EXCEPT !.ds = ds1, !.cs = Del(k.cs, c)], "return", NoCall)
  ELSE Outcome([k EXCEPT !.cs = Del(k.cs, c)], "return", NoCall)

\* A faulty unsubscribeClientFromDriver: after the Redis unsubscribe it keeps
\* the empty set of the driver.
UnsubscribeResumeKeepsEntry(k, c, d) == [k EXCEPT !.cs = Del(k.cs, c)]

\* unsubscribeClientFromDriver after the Redis unsubscribe returned.
UnsubscribeClientFromDriverResume(k, c, d) ==
  [k EXCEPT !.ds = Del(k.ds, d), !.cs = Del(k.cs, c)]

\* subscribeToDriverUpdates: the location lookup that ends the method.
SubscribeLoadLocation(k, d) ==
  IF ~Has(k.loc, d)
  THEN Outcome(k, "awaitLocation", NoCall)
  ELSE Outcome(k, "return", NoCall)

\* subscribeToDriverUpdates from the add of the client to the driver's set.
\* get(driverId) of a removed entry is undefined and .add throws a TypeError,
\* which the catch block logs and rethrows.
SubscribeAdd(k, c, d) ==
  IF ~Has(k.ds, d)
  THEN Outcome(k, "throw", NoCall)
  ELSE LET k1 == [k EXCEPT !.ds = [k.ds EXCEPT ![d] = @ \cup {c}]]
       IN IF ~Has(k1.prof, d)
          THEN Outcome(k1, "awaitProfile", NoCall)
          ELSE SubscribeLoadLocation(k1, d)

\* A faulty binding: it issues the Redis subscribe for every subscriber.
SubscribeBindAlways(k, c, d) ==
  LET k1 == [k EXCEPT !.cs = Put(k.cs, c, d)]
  IN Outcome([k1 EXCEPT !.ds = Put(k1.ds, d, Observers(k1.ds, d))], "awaitBusSubscribe",
             BusCall("subscribe", d, IdleTask.sample))

\* A faulty binding: it tests the size of the set, not the presence of the entry.
SubscribeBindBySize(k, c, d) ==
  LET k1 == [k EXCEPT !.cs = Put(k.cs, c, d)]
  IN IF Observers(k1.ds, d) = {}
     THEN Outcome([k1 EXCEPT !.ds = Put(k1.ds, d, {})], "awaitBusSubscribe",
                  BusCall("subscribe", d, IdleTask.sample))
     ELSE SubscribeAdd(k1, c, d)

\* subscribeToDriverUpdates from the binding of the client to the driver.
SubscribeBind(k, c, d) ==
  LET k1 == [k EXCEPT !.cs = Put(k.cs, c, d)]
  IN IF ~Has(k1.ds, d)
     THEN Outcome([k1 EXCEPT !.ds = Put(k1.ds, d, {})], "awaitBusSubscribe",
                  BusCall("subscribe", d, IdleTask.sample))
     ELSE SubscribeAdd(k1, c, d)

\* subscribeToDriverUpdates from its first line.
SubscribeToDriverUpdates(k, c, d) ==
  IF Has(k.cs, c)
  THEN LET u == UnsubscribeClientFromDriver(k, c, k.cs[c])
       IN IF u.pc = "awaitBusUnsubscribe" THEN u ELSE SubscribeBind(u.k, c, d)
  ELSE SubscribeBind(k, c, d)

\* A faulty unsubscribeFromDriverUpdates: it also forgets the location of the
\* driver.
UnsubscribeForgetsLocation(k, c) ==
  IF Has(k.cs, c)
  THEN UnsubscribeClientFromDriver([k EXCEPT !.loc = Del(k.loc, k.cs[c])], c, k.cs[c])
  ELSE Outcome(k, "return", NoCall)

\* unsubscribeFromDriverUpdates from its first line.
UnsubscribeFromDriverUpdates(k, c) ==
  IF Has(k.cs, c)
  THEN UnsubscribeClientFromDriver(k, c, k.cs[c])
  ELSE Outcome(k, "return", NoCall)

\* A faulty handleDriverLocationUpdate: it publishes whoever observes.
HandleDriverLocationUpdateUngated(k, d, s) ==
  Outcome([k EXCEPT !.loc = Put(k.loc, d, s)], "awaitPublish", BusCall("publish", d, s))

\* handleDriverLocationUpdate up to the await of the Redis publish.
HandleDriverLocationUpdate(k, d, s) ==
  LET k1 == [k EXCEPT !.loc = Put(k.loc, d, s)]
  IN IF ~Has(k1.ds, d) \/ Cardinality(k1.ds[d]) = 0
     THEN Outcome(k1, "return", NoCall)
     ELSE Outcome(k1, "awaitPublish", BusCall("publish", d, s))

(***************************************************************************)
(* RedisRealtimeMessaging: what a command does to the subscriber           *)
(* connection.  Commands of one connection take effect in the order they   *)
(* are issued.  A publish on a channel this instance is subscribed to is   *)
(* delivered back to this instance.                                        *)
(***************************************************************************)
SubscribeToDriverLocationUpdates(subs, d) == subs \cup {d}

UnsubscribeFromDriverLocationUpdates(subs, d) == subs \ {d}

\* setupMessageHandlers also subscribes the connection to the pattern
\* driver:*:location, whatever the per-driver subscriptions are.
PatternSubscribed == TRUE

\* Whether Redis hands a message on driver d's channel to this instance.
Delivered(subs, d) == d \in subs \/ PatternSubscribed

\* What Redis sends this instance for one message on the channel of driver d:
\* a pmessage for the pattern and, when the channel itself is subscribed, a
\* message as well.  Each of them calls the registered handler.
Deliveries(subs, d, text) ==
  (IF PatternSubscribed
   THEN {[driver |-> d, sample |-> text, via |-> "pmessage"]} ELSE {})
    \cup (IF d \in subs
          THEN {[driver |-> d, sample |-> text, via |-> "message"]} ELSE {})

PublishDriverLocationUpdate(box, subs, d, s) ==
  box \cup Deliveries(subs, d, JSONStringify(s))

BusSubscribedAfter(subs, bus) ==
  IF bus = NoCall THEN subs
  ELSE IF bus[1].op = "subscribe" THEN SubscribeToDriverLocationUpdates(subs, bus[1].driver)
  ELSE IF bus[1].op = "unsubscribe" THEN UnsubscribeFromDriverLocationUpdates(subs, bus[1].driver)
  ELSE subs

\* Redis answers the commands of one connection in the order they were sent:
\* the task at the head of the queue is the next whose await returns.
OnSubscriberConnection(bus) == bus # NoCall /\ bus[1].op \in {"subscribe", "unsubscribe"}

BusQueueAfter(queue, t, bus) ==
  LET rest == IF queue # <<>> /\ Head(queue) = t THEN Tail(queue) ELSE queue
  IN IF OnSubscriberConnection(bus) THEN Append(rest, t) ELSE rest

InboxAfter(box, subs, bus) ==
  IF bus # NoCall /\ bus[1].op = "publish"
  THEN PublishDriverLocationUpdate(box, subs, bus[1].driver, bus[1].sample)
  ELSE box

(***************************************************************************)
(* RealtimeService.getDriverLocationAndProfile.  Both caches are read at   *)
(* the first line; pc "data" is the pair it returns, pc "null" is null.    *)
(***************************************************************************)
Fetched(k, pc, location, profile) ==
  [k |-> k, pc |-> pc, location |-> location, profile |-> profile]

GetDriverLocationAndProfile(k, d) ==
  LET location == Lookup(k.loc, d)
      profile == Lookup(k.prof, d)
  IN IF location = <<>> THEN Fetched(k, "awaitStateLocation", <<>>, profile)
     ELSE IF profile = <<>> THEN Fetched(k, "awaitStateProfile", location, <<>>)
     ELSE Fetched(k, "data", location, profile)

\* getDriverLocationAndProfile that does not keep the location it fetched.
GetDriverLocationLoadedUncached(k, d, profile, l) ==
  IF l = <<>> THEN Fetched(k, "null", <<>>, profile)
  ELSE IF profile = <<>> THEN Fetched(k, "awaitStateProfile", l, <<>>)
  ELSE Fetched(k, "data", l, profile)

\* After getLastKnownLocation answered l (<<>> is null).
GetDriverLocationLoaded(k, d, profile, l) ==
  IF l = <<>> THEN Fetched(k, "null", <<>>, profile)
  ELSE LET k1 == [k EXCEPT !.loc = Put(k.loc, d, l[1])]
       IN IF profile = <<>> THEN Fetched(k1, "awaitStateProfile", l, <<>>)
          ELSE Fetched(k1, "data", l, profile)

\* After getDriverProfile answered p (<<>> is null).
GetDriverProfileLoaded(k, d, location, p) ==
  IF p = <<>> THEN Fetched(k, "null", location, <<>>)
  ELSE Fetched([k EXCEPT !.prof = Put(k.prof, d, p[1])], "data", location, p)

(***************************************************************************)
(* ClientGateway.  A timer handle is the client and driver its callback    *)
(* closes over and its period.                                             *)
(***************************************************************************)
Timer(c, d, period) == [client |-> c, driver |-> d, period |-> period]

\* The events of the gateway and their payloads; <<>> is null or a field the
\* payload does not have.
DriverUpdate(d, location, profile) ==
  [name |-> "driver-update", driverId |-> d, coord |-> <<location.coord>>,
   timestamp |-> <<location.timestamp>>, profile |-> <<profile>>, isOnline |-> TRUE]

DriverOffline(d, lastUpdateTime) ==
  [name |-> "driver-offline", driverId |-> d, coord |-> <<>>,
   timestamp |-> lastUpdateTime, profile |-> <<>>, isOnline |-> FALSE]

SubscribeError ==
  [name |-> "error", driverId |-> 0, coord |-> <<>>,
   timestamp |-> <<>>, profile |-> <<>>, isOnline |-> FALSE]

\* server.to(clientId).emit(ev): the room of a closed socket is empty.
Emit(g, c, ev) ==
  IF c \in connected
  THEN [g EXCEPT !.events[c] = @ \cup {ev.name}, !.pushed[c] = Append(@, ev)]
  ELSE g

ClearInterval(g, c) == [g EXCEPT !.timers = @ \ {g.intervals[c]}]

SetInterval(g, c, d, period) ==
  [g EXCEPT !.timers = @ \cup {Timer(c, d, period)},
            !.intervals = Put(@, c, Timer(c, d, period))]

\* A faulty sendDriverUpdate: it leaves the timer as it is.
RetimeKeeps(g, c, d, period) == g

\* sendDriverUpdate: the timer of the client is replaced when it has one.
Retime(g, c, d, period) ==
  IF Has(g.intervals, c) THEN SetInterval(ClearInterval(g, c), c, d, period) ELSE g

\* A faulty recency test: a sample of exactly ten minutes counts as recent.
IsRecentInclusive(location) == (now - location.timestamp) <= TEN_MINUTES

IsRecent(location) == (now - location.timestamp) < TEN_MINUTES

\* sendDriverUpdate after getDriverLocationAndProfile returned r.
SendDriverUpdatePush(g, c, d, r) ==
  IF r.pc = "null"
  THEN Retime(Emit(g, c, DriverOffline(d, <<>>)), c, d, OFFLINE_UPDATE_INTERVAL)
  ELSE IF IsRecent(r.location[1])
       THEN Retime(Emit(g, c, DriverUpdate(d, r.location[1], r.profile[1])),
                   c, d, ONLINE_UPDATE_INTERVAL)
       ELSE Retime(Emit(g, c, DriverOffline(d, <<r.location[1].timestamp>>)),
                   c, d, OFFLINE_UPDATE_INTERVAL)

\* A faulty handleSubscription: it schedules without clearing the timer the
\* client has.
HandleSubscriptionScheduleKeepsOld(g, c, d) ==
  SetInterval(g, c, d, ONLINE_UPDATE_INTERVAL)

\* handleSubscription after the await of sendDriverUpdate.
HandleSubscriptionSchedule(g, c, d) ==
  SetInterval(IF Has(g.intervals, c) THEN ClearInterval(g, c) ELSE g,
              c, d, ONLINE_UPDATE_INTERVAL)

\* What a step leaves: the maps k, the gateway g, the await the task waits on,
\* the Redis command issued and the locals of getDriverLocationAndProfile.
Step(k, g, pc, bus, location, profile) ==
  [k |-> k, g |-> g, pc |-> pc, bus |-> bus, location |-> location, profile |-> profile]

\* sendDriverUpdate once getDriverLocationAndProfile is at r: the push, and for
\* handleSubscription the timer it then sets, when r is the result.
SendDriverUpdate(g, task, r) ==
  IF r.pc \in {"data", "null"}
  THEN LET g1 == SendDriverUpdatePush(g, task.client, task.driver, r)
       IN Step(r.k,
               IF task.kind = "handleSubscription"
               THEN HandleSubscriptionSchedule(g1, task.client, task.driver) ELSE g1,
               "done", NoCall, r.location, r.profile)
  ELSE Step(r.k, g, r.pc, NoCall, r.location, r.profile)

\* handleSubscription after a step of subscribeToDriverUpdates: the push when it
\* returned, the 'error' event when it threw.
HandleSubscription(g, task, out) ==
  IF out.pc = "return"
  THEN SendDriverUpdate(g, task, GetDriverLocationAndProfile(out.k, task.driver))
  ELSE IF out.pc = "throw"
  THEN Step(out.k, Emit(g, task.client, SubscribeError), "done", NoCall, <<>>, <<>>)
  ELSE Step(out.k, g, out.pc, out.bus, <<>>, <<>>)

\* The caller of a RealtimeService method goes on in the same step when the
\* method returns.
Continue(task, out) ==
  IF task.kind = "handleSubscription"
  THEN HandleSubscription(Gateway, task, out)
  ELSE Step(out.k, Gateway, out.pc, out.bus, task.location, task.profile)

(***************************************************************************)
(* Bookkeeping of a task: the Redis commands it issued and the times it    *)
(* made a driver's observer set empty or non-empty.                        *)
(***************************************************************************)
Bump(f, d) == [f EXCEPT ![d] = @ + 1]

CountCall(task, bus) ==
  IF bus = NoCall THEN task
  ELSE IF bus[1].op = "subscribe"
       THEN [task EXCEPT !.nSubscribe = Bump(@, bus[1].driver)]
  ELSE IF bus[1].op = "unsubscribe"
       THEN [task EXCEPT !.nUnsubscribe = Bump(@, bus[1].driver)]
  ELSE [task EXCEPT !.nPublish = Bump(@, bus[1].driver)]

CountTransitions(task, ds0, ds1) ==
  [task EXCEPT
     !.nFilled = [d \in Drivers |->
        IF Observers(ds0, d) = {} /\ Observers(ds1, d) # {} THEN @[d] + 1 ELSE @[d]],
     !.nEmptied = [d \in Drivers |->
        IF Observers(ds0, d) # {} /\ Observers(ds1, d) = {} THEN @[d] + 1 ELSE @[d]]]

\* A step of task t ends: the maps, the Redis connection, the timers and the
\* task change.
CommitFrom(t, task, out, box) ==
  /\ clientIntervals' = out.g.intervals
  /\ activeTimers' = out.g.timers
  /\ eventsSince' = out.g.events
  /\ pushed' = out.g.pushed
  /\ clientSubscriptions' = out.k.cs
  /\ driverSubscribers' = out.k.ds
  /\ locationCache' = out.k.loc
  /\ profileCache' = out.k.prof
  /\ busSubscribed' = BusSubscribedAfter(busSubscribed, out.bus)
  /\ busQueue' = BusQueueAfter(busQueue, t, out.bus)
  /\ inbox' = InboxAfter(box, busSubscribed, out.bus)
  /\ tasks' = [tasks EXCEPT ![t] =
        CountTransitions(
          CountCall([task EXCEPT !.pc = out.pc, !.location = out.location,
                                 !.profile = out.profile], out.bus),
          driverSubscribers, out.k.ds)]
  /\ started' = IF tasks[t].kind = "idle" /\ started < MaxSerialCalls
                THEN started + 1 ELSE started
  /\ accepted' = IF tasks[t].kind = "idle" /\ task.kind = "locationUpdate"
                 THEN [accepted EXCEPT ![task.driver] = <<task.sample>>]
                 ELSE accepted
  /\ UNCHANGED <<driverVars, handlerVars>>

Commit(t, task, out) == CommitFrom(t, task, Continue(task, out), inbox)

Quiescent == \A t \in Tasks : tasks[t].kind = "idle"

\* Whether a new call may start in slot t: always when calls overlap, only
\* when no call is in flight when they run one after another (serial).
\* Slots are interchangeable: a call takes the lowest free one.
FreeSlot(t) ==
  /\ tasks[t].kind = "idle"
  /\ \A u \in Tasks : u < t => tasks[u].kind # "idle"

MayStart(t, serial) ==
  /\ FreeSlot(t)
  /\ serial => Quiescent
  /\ started < (IF serial THEN MaxSerialCalls ELSE MaxCalls)

\* Client c has a call of its own in flight.
InFlightFor(c) ==
  \E t \in Tasks : tasks[t].kind \in {"subscribe", "unsubscribe"} /\ tasks[t].client = c

\* A faulty subscribeToDriverUpdates: it fails when the driver has no profile.
SubscribeProfileRequired(k, d, p) ==
  IF p = <<>> THEN Outcome(k, "throw", NoCall)
  ELSE SubscribeLoadLocation([k EXCEPT !.prof = Put(k.prof, d, p[1])], d)

\* What a call got from the driver service: null or a value.
Got(answer) == IF answer = <<>> THEN "null" ELSE "value"

\* A call of subscribeToDriverUpdates made on its own notes what it got.
Noted(task, half, answer) ==
  IF task.kind = "subscribe" THEN [task EXCEPT !.got[half] = Got(answer)] ELSE task

\* subscribeToDriverUpdates after getDriverProfile answered p (<<>> is null).
SubscribeProfileLoaded(k, d, p) ==
  SubscribeLoadLocation(IF p # <<>> THEN [k EXCEPT !.prof = Put(k.prof, d, p[1])] ELSE k, d)

\* subscribeToDriverUpdates after getLastKnownLocation answered l (<<>> is null).
SubscribeLocationLoaded(k, d, l) ==
  Outcome(IF l # <<>> THEN [k EXCEPT !.loc = Put(k.loc, d, l[1])] ELSE k, "return", NoCall)

\* subscribeToDriverUpdates or unsubscribeFromDriverUpdates after the await of
\* unsubscribeClientFromDriver.
AfterUnsubscribeClientFromDriver(k, task) ==
  LET k1 == UnsubscribeClientFromDriverResume(k, task.client, task.prev[1])
  IN IF task.kind = "unsubscribe"
     THEN Outcome(k1, "return", NoCall)
     ELSE SubscribeBind(k1, task.client, task.driver)

(***************************************************************************)
(* The driver service (HttpDriverService): its answers.                    *)
(***************************************************************************)
\* The ways a request to another service fails: firstValueFrom throws.
HttpFailures == {"status 404", "status 500", "timeout", "refused"}

\* What a request can come to: a response with the body, a response without
\* one, or a failure.
HttpResponses(bodies) ==
  {[status |-> "ok", data |-> <<b>>] : b \in bodies}
    \cup {[status |-> "ok", data |-> <<>>]}
    \cup {[status |-> f, data |-> <<>>] : f \in HttpFailures}

\* The request failed, or reading its body throws: the catch block runs.
Caught(r) == r.status # "ok" \/ r.data = <<>>

\* A faulty getDriverProfile: it answers a profile whatever the request came to.
GetDriverProfileUnchecked(d, r) == <<DriverProfile(d)>>

\* getDriverProfile(d) when its request came to r (<<>> is null).
GetDriverProfile(d, r) ==
  IF Caught(r) THEN <<>> ELSE <<DriverProfile(r.data[1].id)>>

\* getLastKnownLocation(d) when its request came to r (<<>> is null).
GetLastKnownLocation(d, r) ==
  IF Caught(r) THEN <<>>
  ELSE <<DriverLocation(r.data[1].driverId, r.data[1].coord, r.data[1].timestamp)>>

\* validateDriverToken(token) when its request came to r.
ValidateDriverToken(token, r) ==
  IF Caught(r) THEN [isValid |-> FALSE, driverId |-> <<>>]
  ELSE [isValid |-> TRUE, driverId |-> r.data[1].driverId]

\* What the auth service can answer about the profile of driver d.
ProfileResponses(d) == HttpResponses({DriverProfile(d)})

\* What the location service can answer about driver d: a sample no later
\* than now.
LocationResponses(d) ==
  HttpResponses({JSONStringify(DriverLocation(d, c, ts)) :
                   c \in Coords, ts \in {x \in Times : x <= now}})

ProfileAnswers(d) == {GetDriverProfile(d, r) : r \in ProfileResponses(d)}

LocationAnswers(d) == {GetLastKnownLocation(d, r) : r \in LocationResponses(d)}

(***************************************************************************)
(* Calls of the RealtimeService port.                                      *)
(***************************************************************************)
\* The maps and the Redis subscriptions as a call that runs alone finds them.
Before(serial) == IF serial THEN <<[k |-> Core, subs |-> busSubscribed]>> ELSE <<>>

StartSubscribe(t, c, d, serial) ==
  /\ MayStart(t, serial)
  /\ LET out == SubscribeToDriverUpdates(Core, c, d)
         task == [IdleTask EXCEPT !.kind = "subscribe", !.client = c, !.driver = d,
                    !.prev = Lookup(clientSubscriptions, c), !.before = Before(serial)]
     IN Commit(t, task, out)
  /\ UNCHANGED <<connected, lastRequest, now, handlerVars>>

StartUnsubscribe(t, c, serial) ==
  /\ MayStart(t, serial)
  /\ LET out == UnsubscribeFromDriverUpdates(Core, c)
         task == [IdleTask EXCEPT !.kind = "unsubscribe", !.client = c,
                    !.prev = Lookup(clientSubscriptions, c), !.before = Before(serial)]
     IN Commit(t, task, out)
  /\ UNCHANGED <<connected, lastRequest, now, handlerVars>>

Ingest(t, d, c) ==
  /\ FreeSlot(t)
  /\ LET s == DriverLocation(d, c, now)
         out == HandleDriverLocationUpdate(Core, d, s)
         task == [IdleTask EXCEPT !.kind = "locationUpdate", !.driver = d, !.sample = s,
                    !.watched = Observers(driverSubscribers, d) # {}]
     IN Commit(t, task, out)
  /\ UNCHANGED <<connected, lastRequest, now, handlerVars>>

StartLocationUpdate(t, d, c, serial) == MayStart(t, serial) /\ Ingest(t, d, c)

ResumeBusUnsubscribe(t) ==
  /\ tasks[t].pc = "awaitBusUnsubscribe"
  /\ Head(busQueue) = t
  /\ Commit(t, tasks[t], AfterUnsubscribeClientFromDriver(Core, tasks[t]))
  /\ UNCHANGED <<connected, lastRequest, now, handlerVars>>

ResumeBusSubscribe(t) ==
  /\ tasks[t].pc = "awaitBusSubscribe"
  /\ Head(busQueue) = t
  /\ Commit(t, tasks[t], SubscribeAdd(Core, tasks[t].client, tasks[t].driver))
  /\ UNCHANGED <<connected, lastRequest, now, handlerVars>>

ResumeProfile(t) ==
  /\ tasks[t].pc = "awaitProfile"
  /\ \E p \in ProfileAnswers(tasks[t].driver) :
       Commit(t, Noted(tasks[t], "profile", p),
              SubscribeProfileLoaded(Core, tasks[t].driver, p))
  /\ UNCHANGED <<connected, lastRequest, now, handlerVars>>

ResumeLocation(t) ==
  /\ tasks[t].pc = "awaitLocation"
  /\ \E l \in LocationAnswers(tasks[t].driver) :
       Commit(t, Noted(tasks[t], "location", l),
              SubscribeLocationLoaded(Core, tasks[t].driver, l))
  /\ UNCHANGED <<connected, lastRequest, now, handlerVars>>

ResumePublish(t) ==
  /\ tasks[t].pc = "awaitPublish"
  /\ Commit(t, tasks[t], Outcome(Core, "return", NoCall))
  /\ UNCHANGED <<connected, lastRequest, now, handlerVars>>

\* The Redis command task t awaits fails: the promise of the messaging method
\* rejects, and the catch block of the method of RealtimeService that awaits
\* it logs the error and throws it again.  The command had no effect in Redis.
BusFails(t) ==
  /\ tasks[t].kind \in {"subscribe", "unsubscribe", "locationUpdate"}
  /\ tasks[t].pc \in {"awaitBusSubscribe", "awaitBusUnsubscribe", "awaitPublish"}
  /\ tasks[t].pc # "awaitPublish" => Head(busQueue) = t
  /\ tasks' = [tasks EXCEPT ![t].pc = "throw", ![t].result = "bus error"]
  /\ busQueue' = IF tasks[t].pc # "awaitPublish" THEN Tail(busQueue) ELSE busQueue
  /\ busSubscribed' =
       IF tasks[t].pc = "awaitBusSubscribe"
       THEN UnsubscribeFromDriverLocationUpdates(busSubscribed, tasks[t].driver)
       ELSE IF tasks[t].pc = "awaitBusUnsubscribe"
       THEN SubscribeToDriverLocationUpdates(busSubscribed, tasks[t].prev[1])
       ELSE busSubscribed
  /\ inbox' =
       IF tasks[t].pc = "awaitPublish"
       THEN inbox \ Deliveries(busSubscribed, tasks[t].driver, JSONStringify(tasks[t].sample))
       ELSE inbox
  /\ UNCHANGED <<clientSubscriptions, driverSubscribers, locationCache, profileCache,
                 started, accepted, gatewayVars, driverVars, now, handlerVars>>

\* The promise of the call settles and its caller goes on.
Return(t) ==
  /\ tasks[t].kind # "idle"
  /\ tasks[t].pc \in {"return", "throw", "done"}
  /\ tasks' = [tasks EXCEPT ![t] = IdleTask]
  /\ UNCHANGED <<clientSubscriptions, driverSubscribers, locationCache, profileCache,
                 busSubscribed, busQueue, inbox, started, accepted, gatewayVars, driverVars,
                 now, handlerVars>>

\* A faulty registerLocationUpdateHandler: it keeps the handler it has.
RegisterKeepsFirst(current, h) == IF current = <<>> THEN <<h>> ELSE current

\* registerLocationUpdateHandler: the handler takes the place of the one set.
RegisterLocationUpdateHandler(current, h) == <<h>>

\* The maps, the connections and the timers of an instance that has served
\* no call yet.
Fresh ==
  /\ clientSubscriptions = EmptyMap
  /\ driverSubscribers = EmptyMap
  /\ locationCache = EmptyMap
  /\ profileCache = EmptyMap
  /\ busSubscribed = {}
  /\ busQueue = <<>>
  /\ inbox = {}
  /\ tasks = [t \in Tasks |-> IdleTask]
  /\ started = 0
  /\ accepted = [d \in Drivers |-> <<>>]
  /\ connected = Clients
  /\ clientIntervals = EmptyMap
  /\ activeTimers = {}
  /\ lastRequest = [c \in Clients |-> "none"]
  /\ eventsSince = [c \in Clients |-> {}]
  /\ pushed = [c \in Clients |-> <<>>]
  /\ driverSockets = EmptyMap
  /\ tokenValidationTimers = EmptyMap
  /\ tokenTimers = {}
  /\ driverConnected = Sockets
  /\ validTokens = Tokens
  /\ socketEvents = [x \in Sockets |-> {}]
  /\ now = 0

\* The instance once the constructor of the RealtimeService the gateways use
\* has run.
Init ==
  /\ Fresh
  /\ locationUpdateHandler = <<CoreHandler>>
  /\ registrations = <<CoreHandler>>

\* RealtimeModule lists RealtimeService twice among its providers: under the
\* token 'IRealtimeService', which the gateways inject, and under its class.
\* Nest makes one instance for each provider.
Providers == {"IRealtimeService", "RealtimeService"}

\* The handler the constructor of the instance of provider p registers: the
\* handleDriverLocationUpdate of that instance.
HandlerOf(p) == IF p = "IRealtimeService" THEN CoreHandler ELSE NumHandlers

\* The instance before Nest has made any provider.
InitModule ==
  /\ Fresh
  /\ locationUpdateHandler = <<>>
  /\ registrations = <<>>

\* Whether Nest has made every provider; onModuleInit runs after that.
Bootstrapped ==
  \A p \in Providers : \E i \in 1..Len(registrations) : registrations[i] = HandlerOf(p)

\* Nest makes the instance of provider p: its constructor registers its
\* handler.  The order in which Nest makes the providers is its own.
ConstructRealtimeService(p) ==
  /\ \A i \in 1..Len(registrations) : registrations[i] # HandlerOf(p)
  /\ locationUpdateHandler' = RegisterLocationUpdateHandler(locationUpdateHandler, HandlerOf(p))
  /\ registrations' = Append(registrations, HandlerOf(p))
  /\ UNCHANGED <<coreVars, gatewayVars, driverVars, now>>

\* Another instance, or the location service, publishes a sample of driver d.
PeerPublish(d, c) ==
  /\ Delivered(busSubscribed, d)
  /\ inbox' = inbox \cup Deliveries(busSubscribed, d, JSONStringify(DriverLocation(d, c, now)))
  /\ UNCHANGED <<clientSubscriptions, driverSubscribers, locationCache, profileCache,
                 busSubscribed, busQueue, tasks, started, accepted, gatewayVars, driverVars,
                 now, handlerVars>>

\* onDriverLocationUpdate is called with handler h.
OnDriverLocationUpdate(h) ==
  /\ Len(registrations) < MaxRegistrations
  /\ locationUpdateHandler' = RegisterLocationUpdateHandler(locationUpdateHandler, h)
  /\ registrations' = Append(registrations, h)
  /\ UNCHANGED <<coreVars, gatewayVars, driverVars, now>>

\* The 'message' or the 'pmessage' listener calls the handler that is set and
\* does not await it: handleDriverLocationUpdate, which the constructor
\* registered, or a handler registered since, which leaves RealtimeService
\* alone.
Deliver(t, m) ==
  /\ FreeSlot(t)
  /\ m \in inbox
  /\ locationUpdateHandler # <<>>
  /\ LET s == JSONParse(m.sample)
         h == locationUpdateHandler[1]
         out == IF h = CoreHandler
                THEN HandleDriverLocationUpdate(Core, m.driver, s)
                ELSE Outcome(Core, "return", NoCall)
         task == [IdleTask EXCEPT !.kind = "busDelivery", !.driver = m.driver,
                    !.sample = s, !.handler = h,
                    !.watched = Observers(driverSubscribers, m.driver) # {}]
     IN CommitFrom(t, task, Continue(task, out), inbox \ {m})
  /\ UNCHANGED <<connected, lastRequest, now, handlerVars>>

\* A delivery, while the calls started are fewer than MaxCalls.
BusDeliver(t, m) == MayStart(t, FALSE) /\ Deliver(t, m)

(***************************************************************************)
(* ClientGateway: its socket events and timers.                            *)
(***************************************************************************)
\* Client c sends subscribe-driver: handleSubscription up to its first await.
ClientSubscribeDriver(t, c, d) ==
  /\ MayStart(t, FALSE)
  /\ c \in connected
  /\ LET task == [IdleTask EXCEPT !.kind = "handleSubscription", !.client = c,
                    !.driver = d, !.prev = Lookup(clientSubscriptions, c)]
         g == [Gateway EXCEPT !.events[c] = {}]
         out == SubscribeToDriverUpdates(Core, c, d)
     IN CommitFrom(t, task, HandleSubscription(g, task, out), inbox)
  /\ lastRequest' = [lastRequest EXCEPT ![c] = "subscribe-driver"]
  /\ UNCHANGED <<connected, now, handlerVars>>

\* Timer h fires: its callback calls sendDriverUpdate.  The periods are shorter
\* than a step of the clock, so a timer that is not cleared may fire at any time.
TimerFires(t, h) ==
  /\ MayStart(t, FALSE)
  /\ h \in activeTimers
  /\ LET task == [IdleTask EXCEPT !.kind = "tick", !.client = h.client,
                    !.driver = h.driver, !.late = h.client \notin connected,
                    !.seen = accepted[h.driver]]
     IN CommitFrom(t, task,
                   SendDriverUpdate(Gateway, task, GetDriverLocationAndProfile(Core, h.driver)),
                   inbox)
  /\ UNCHANGED <<connected, lastRequest, now, handlerVars>>

\* sendDriverUpdate after getLastKnownLocation answered.
ResumeStateLocation(t) ==
  /\ tasks[t].kind # "getState"
  /\ tasks[t].pc = "awaitStateLocation"
  /\ \E l \in LocationAnswers(tasks[t].driver) :
       CommitFrom(t, tasks[t],
                  SendDriverUpdate(Gateway, tasks[t],
                    GetDriverLocationLoaded(Core, tasks[t].driver, tasks[t].profile, l)),
                  inbox)
  /\ UNCHANGED <<connected, lastRequest, now, handlerVars>>

\* sendDriverUpdate after getDriverProfile answered.
ResumeStateProfile(t) ==
  /\ tasks[t].kind # "getState"
  /\ tasks[t].pc = "awaitStateProfile"
  /\ \E p \in ProfileAnswers(tasks[t].driver) :
       CommitFrom(t, tasks[t],
                  SendDriverUpdate(Gateway, tasks[t],
                    GetDriverProfileLoaded(Core, tasks[t].driver, tasks[t].location, p)),
                  inbox)
  /\ UNCHANGED <<connected, lastRequest, now, handlerVars>>

\* The socket of client c closes: handleDisconnect.
HandleDisconnect(c) ==
  /\ c \in connected
  /\ connected' = connected \ {c}
  /\ IF Has(clientIntervals, c)
     THEN /\ activeTimers' = activeTimers \ {clientIntervals[c]}
          /\ clientIntervals' = Del(clientIntervals, c)
     ELSE UNCHANGED <<activeTimers, clientIntervals>>
  /\ UNCHANGED <<coreVars, lastRequest, eventsSince, pushed, driverVars, now, handlerVars>>

\* A handler of client c is in flight.
Handling(c) ==
  \E t \in Tasks : tasks[t].kind = "handleSubscription" /\ tasks[t].client = c

\* A subscribed client sends unsubscribe-driver: the gateway has no handler
\* for the message, and nothing of the server changes.
ClientUnsubscribeDriver(c) ==
  /\ c \in connected
  /\ lastRequest[c] = "subscribe-driver"
  /\ ~Handling(c)
  /\ lastRequest' = [lastRequest EXCEPT ![c] = "unsubscribe-driver"]
  /\ eventsSince' = [eventsSince EXCEPT ![c] = {}]
  /\ UNCHANGED <<coreVars, connected, clientIntervals, activeTimers, pushed, driverVars,
                 now, handlerVars>>

\* Time passes.
(***************************************************************************)
(* getDriverLocationAndProfile called on its own.                          *)
(***************************************************************************)
\* A step of getDriverLocationAndProfile in task t that leaves it at r: the
\* collaborator it now waits for is noted in asked.
GetStateCommit(t, task, r) ==
  LET returns == r.pc \in {"data", "null"}
      task1 == [task EXCEPT
                  !.result = IF returns THEN r.pc ELSE @,
                  !.asked = IF r.pc = "awaitStateLocation" THEN @ \cup {"location"}
                            ELSE IF r.pc = "awaitStateProfile" THEN @ \cup {"profile"}
                            ELSE @]
  IN /\ CommitFrom(t, task1,
                   Step(r.k, Gateway, IF returns THEN "return" ELSE r.pc, NoCall,
                        r.location, r.profile),
                   inbox)
     /\ UNCHANGED <<connected, lastRequest, now, handlerVars>>

StartGetState(t, d) ==
  /\ MayStart(t, FALSE)
  /\ GetStateCommit(t, [IdleTask EXCEPT !.kind = "getState", !.driver = d],
                    GetDriverLocationAndProfile(Core, d))

\* getDriverLocationAndProfile after getLastKnownLocation answered.
ResumeGetStateLocation(t) ==
  /\ tasks[t].kind = "getState"
  /\ tasks[t].pc = "awaitStateLocation"
  /\ \E l \in LocationAnswers(tasks[t].driver) :
       GetStateCommit(t, tasks[t],
                      GetDriverLocationLoaded(Core, tasks[t].driver, tasks[t].profile, l))

\* getDriverLocationAndProfile after getDriverProfile answered.
ResumeGetStateProfile(t) ==
  /\ tasks[t].kind = "getState"
  /\ tasks[t].pc = "awaitStateProfile"
  /\ \E p \in ProfileAnswers(tasks[t].driver) :
       GetStateCommit(t, tasks[t],
                      GetDriverProfileLoaded(Core, tasks[t].driver, tasks[t].location, p))

(***************************************************************************)
(* isDriverOnline.                                                         *)
(***************************************************************************)
\* DriverLocation.isRecent.
LocationIsRecent(location) == location.timestamp > now - TEN_MINUTES

\* isDriverOnline once the location is resolved (<<>>: there is none): what
\* it returns, or the TypeError of calling isRecent on an object that has no
\* such method, which it throws again.
IsDriverOnline(location) ==
  IF location = <<>> THEN "false"
  ELSE IF ~location[1].entity THEN "TypeError"
  ELSE IF LocationIsRecent(location[1]) THEN "true"
  ELSE "false"

\* Task t ends isDriverOnline with the location it resolved.
IsOnlineCommit(t, task, location) ==
  LET verdict == IsDriverOnline(location)
  IN /\ tasks' = [tasks EXCEPT ![t] =
          [task EXCEPT !.location = location, !.result = verdict,
                       !.pc = IF verdict = "TypeError" THEN "throw" ELSE "return"]]
     /\ started' = IF tasks[t].kind = "idle" THEN started + 1 ELSE started
     /\ UNCHANGED <<clientSubscriptions, driverSubscribers, locationCache, profileCache,
                    busSubscribed, busQueue, inbox, accepted, gatewayVars, driverVars, now, handlerVars>>

StartIsOnline(t, d) ==
  /\ MayStart(t, FALSE)
  /\ LET task == [IdleTask EXCEPT !.kind = "isOnline", !.driver = d]
     IN IF Has(locationCache, d)
        THEN IsOnlineCommit(t, task, <<locationCache[d]>>)
        ELSE /\ tasks' = [tasks EXCEPT ![t] =
                  [task EXCEPT !.pc = "awaitOnlineLocation", !.asked = {"location"}]]
             /\ started' = started + 1
             /\ UNCHANGED <<clientSubscriptions, driverSubscribers, locationCache,
                            profileCache, busSubscribed, busQueue, inbox, accepted,
                            gatewayVars, driverVars, now, handlerVars>>

\* isDriverOnline after getLastKnownLocation answered.
ResumeIsOnline(t) ==
  /\ tasks[t].kind = "isOnline"
  /\ tasks[t].pc = "awaitOnlineLocation"
  /\ \E l \in LocationAnswers(tasks[t].driver) : IsOnlineCommit(t, tasks[t], l)

(***************************************************************************)
(* DriverGateway: authentication, token revalidation and location updates  *)
(* of the driver sockets.                                                  *)
(***************************************************************************)
\* The driver the auth service names for token k.
TokenDriver(k) == ((k - 1) % NumDrivers) + 1

\* What the auth service can answer about a token: it accepts only the
\* tokens that are valid, and its answer may carry no driverId.
ValidationResponses(token) ==
  IF token \in validTokens
  THEN HttpResponses({[driverId |-> <<TokenDriver(token)>>], [driverId |-> <<>>]})
  ELSE {r \in HttpResponses({}) : Caught(r)}

ValidationAnswers(token) == {ValidateDriverToken(token, r) : r \in ValidationResponses(token)}

\* The bodies of update-location the drivers send.
LocationInputs ==
  {LocationData(Number(0), Number(1)), LocationData(Number(95), Number(0)),
   LocationData(Number(0), Number(200)), LocationData(NotANumber, Number(0)),
   ForgedLocationData(Number(0), Number(1), NumDrivers, TimeStep)}

\* The token validation timer of a socket.
TokenTimer(sock, token) == [socket |-> sock, token |-> token]

\* The maps and timers of DriverGateway as one value.
Driver ==
  [sockets |-> driverSockets, timers |-> tokenValidationTimers, active |-> tokenTimers,
   connected |-> driverConnected, events |-> socketEvents]

\* scheduleTokenValidation.
ScheduleTokenValidation(g, sock, token) ==
  LET g1 == IF Has(g.timers, sock)
            THEN [g EXCEPT !.active = @ \ {g.timers[sock]}]
            ELSE g
  IN [g1 EXCEPT !.active = @ \cup {TokenTimer(sock, token)},
                !.timers = Put(@, sock, TokenTimer(sock, token))]

\* A faulty clean up: it drops the binding of a socket and leaves its timer.
CleanUpKeepsTimer(g, sock) ==
  IF Has(g.sockets, sock) THEN [g EXCEPT !.sockets = Del(@, sock)] ELSE g

\* The binding and the timer of a socket are dropped: handleDisconnect, and
\* the clean up of an expired token.
CleanUp(g, sock) ==
  LET g1 == IF Has(g.sockets, sock) THEN [g EXCEPT !.sockets = Del(@, sock)] ELSE g
  IN IF Has(g1.timers, sock)
     THEN [g1 EXCEPT !.active = @ \ {g1.timers[sock]}, !.timers = Del(@, sock)]
     ELSE g1

\* handleAuthentication that asks the auth service about any token.
HandleAuthenticationAnyToken(token) == "awaitValidate"

\* handleAuthentication before its await: the token is required.
HandleAuthentication(token) ==
  IF token = 0 THEN "Access token required" ELSE "awaitValidate"

\* handleAuthentication after validateDriverToken answered v.
HandleAuthenticationValidated(g, sock, token, v) ==
  IF ~v.isValid \/ v.driverId = <<>>
  THEN g
  ELSE ScheduleTokenValidation([g EXCEPT !.sockets = Put(@, sock, v.driverId[1])],
                               sock, token)

\* The callback of the token validation timer that notifies and disconnects
\* the socket of an expired token and keeps its binding and its timer.
TokenValidatedKeepsBinding(g, sock, v) ==
  IF ~v.isValid
  THEN [g EXCEPT !.events[sock] = IF sock \in g.connected
                                   THEN @ \cup {"token-expired"} ELSE @,
                 !.connected = @ \ {sock}]
  ELSE g

\* The callback of the token validation timer after validateDriverToken
\* answered v.
TokenValidated(g, sock, v) ==
  IF ~v.isValid
  THEN CleanUp([g EXCEPT !.events[sock] = IF sock \in g.connected
                                            THEN @ \cup {"token-expired"} ELSE @,
                         !.connected = @ \ {sock}],
               sock)
  ELSE g

\* handleLocationUpdate that looks at the body before it looks at the binding.
HandleLocationUpdateBodyFirst(sockets, sock, data) ==
  IF data.latitude.type # "number" \/ data.longitude.type # "number"
  THEN "Invalid location data"
  ELSE IF ~Has(sockets, sock) THEN "Not authenticated"
  ELSE "success"

\* handleLocationUpdate up to the call of handleDriverLocationUpdate.
HandleLocationUpdate(sockets, sock, data) ==
  IF ~Has(sockets, sock) THEN "Not authenticated"
  ELSE IF data.latitude.type # "number" \/ data.longitude.type # "number"
       THEN "Invalid location data"
  ELSE "success"

\* The maps and timers of DriverGateway change to g, and task t to task.
DriverCommit(t, task, g) ==
  /\ driverSockets' = g.sockets
  /\ tokenValidationTimers' = g.timers
  /\ tokenTimers' = g.active
  /\ driverConnected' = g.connected
  /\ socketEvents' = g.events
  /\ tasks' = [tasks EXCEPT ![t] = task]
  /\ started' = IF tasks[t].kind = "idle" THEN started + 1 ELSE started
  /\ UNCHANGED <<clientSubscriptions, driverSubscribers, locationCache, profileCache,
                 busSubscribed, busQueue, inbox, accepted, gatewayVars, validTokens, now, handlerVars>>

\* The driver of socket sock sends authenticate with a token (0: none).
DriverAuthenticate(t, sock, token) ==
  /\ MayStart(t, FALSE)
  /\ sock \in driverConnected
  /\ LET verdict == HandleAuthentication(token)
         task == [IdleTask EXCEPT !.kind = "authenticate", !.socket = sock,
                                  !.token = token]
     IN IF verdict = "awaitValidate"
        THEN DriverCommit(t, [task EXCEPT !.pc = "awaitValidate"], Driver)
        ELSE DriverCommit(t, [task EXCEPT !.pc = "throw", !.result = verdict], Driver)

\* validateDriverToken answers handleAuthentication.
ResumeAuthenticate(t) ==
  /\ tasks[t].kind = "authenticate"
  /\ tasks[t].pc = "awaitValidate"
  /\ \E v \in ValidationAnswers(tasks[t].token) :
       LET task == [tasks[t] EXCEPT !.validation = <<v>>]
       IN IF ~v.isValid \/ v.driverId = <<>>
          THEN DriverCommit(t, [task EXCEPT !.pc = "throw",
                                            !.result = "Invalid or expired token"],
                            HandleAuthenticationValidated(Driver, task.socket, task.token, v))
          ELSE DriverCommit(t, [task EXCEPT !.pc = "return", !.result = "success",
                                            !.driver = v.driverId[1]],
                            HandleAuthenticationValidated(Driver, task.socket, task.token, v))

\* The token validation timer h fires: its callback calls validateDriverToken.
TokenTimerFires(t, h) ==
  /\ MayStart(t, FALSE)
  /\ h \in tokenTimers
  /\ DriverCommit(t, [IdleTask EXCEPT !.kind = "revalidate", !.pc = "awaitValidate",
                                      !.socket = h.socket, !.token = h.token],
                  Driver)

\* validateDriverToken answers the callback of the timer.
ResumeRevalidate(t) ==
  /\ tasks[t].kind = "revalidate"
  /\ tasks[t].pc = "awaitValidate"
  /\ \E v \in ValidationAnswers(tasks[t].token) :
       DriverCommit(t, [tasks[t] EXCEPT !.pc = "done", !.validation = <<v>>],
                    TokenValidated(Driver, tasks[t].socket, v))

\* The socket of a driver disconnects: handleDisconnect.
DriverDisconnect(sock) ==
  /\ sock \in driverConnected
  /\ LET g == CleanUp([Driver EXCEPT !.connected = @ \ {sock}], sock)
     IN /\ driverSockets' = g.sockets
        /\ tokenValidationTimers' = g.timers
        /\ tokenTimers' = g.active
        /\ driverConnected' = g.connected
  /\ UNCHANGED <<coreVars, gatewayVars, validTokens, socketEvents, now, handlerVars>>

\* The auth service stops accepting token k.
TokenExpires(k) ==
  /\ k \in validTokens
  /\ validTokens' = validTokens \ {k}
  /\ UNCHANGED <<coreVars, gatewayVars, driverSockets, tokenValidationTimers, tokenTimers,
                 driverConnected, socketEvents, now, handlerVars>>

\* A faulty handleLocationUpdate: it takes the driver and the time the body
\* names when it names them.
NewDriverLocationFromBody(driverId, data) ==
  IF data.extra = <<>>
  THEN DriverLocation(driverId, Coordinates(data.latitude.value, data.longitude.value), now)
  ELSE DriverLocation(data.extra[1].driverId,
                      Coordinates(data.latitude.value, data.longitude.value),
                      data.extra[1].timestamp)

\* The DriverLocation handleLocationUpdate makes of a body: the driver of the
\* binding, the two coordinates of the body and new Date().
NewDriverLocation(driverId, data) ==
  DriverLocation(driverId, Coordinates(data.latitude.value, data.longitude.value), now)

\* The driver of socket sock sends update-location.
DriverUpdateLocation(t, sock, data) ==
  /\ MayStart(t, FALSE)
  /\ sock \in driverConnected
  /\ LET verdict == HandleLocationUpdate(driverSockets, sock, data)
         task == [IdleTask EXCEPT !.kind = "locationUpdate", !.socket = sock,
                                  !.data = data, !.result = verdict]
     IN IF verdict = "success"
        THEN LET d == driverSockets[sock]
                 s == NewDriverLocation(d, data)
             IN /\ Commit(t, [task EXCEPT !.driver = d, !.sample = s,
                                  !.watched = Observers(driverSubscribers, d) # {}],
                          HandleDriverLocationUpdate(Core, d, s))
                /\ UNCHANGED <<connected, lastRequest, now, handlerVars>>
        ELSE DriverCommit(t, [task EXCEPT !.pc = "throw"], Driver)

AdvanceTime ==
  /\ now < MaxSteps * TimeStep
  /\ now' = now + TimeStep
  /\ UNCHANGED <<coreVars, gatewayVars, driverVars, handlerVars>>

Resume(t) ==
  \/ ResumeBusUnsubscribe(t)
  \/ ResumeBusSubscribe(t)
  \/ ResumeProfile(t)
  \/ ResumeLocation(t)
  \/ ResumePublish(t)
  \/ Return(t)

(***************************************************************************)
(* SpecSeq: the calls of the port run one after another.                   *)
(***************************************************************************)
NextSeq ==
  \E t \in Tasks :
    \/ \E c \in Clients, d \in Drivers : StartSubscribe(t, c, d, TRUE)
    \/ \E c \in Clients : StartUnsubscribe(t, c, TRUE)
    \/ \E d \in Drivers, c \in Coords : StartLocationUpdate(t, d, c, TRUE)
    \/ Resume(t)

SpecSeq == Init /\ [][NextSeq]_vars

(***************************************************************************)
(* SpecClients: every client awaits its own call before it makes the next, *)
(* and the calls of different clients overlap at their awaits.            *)
(***************************************************************************)
NextClients ==
  \E t \in Tasks :
    \/ \E c \in Clients, d \in Drivers : ~InFlightFor(c) /\ StartSubscribe(t, c, d, FALSE)
    \/ \E c \in Clients : ~InFlightFor(c) /\ StartUnsubscribe(t, c, FALSE)
    \/ ResumeBusUnsubscribe(t)
    \/ ResumeBusSubscribe(t)
    \/ ResumeProfile(t)
    \/ ResumeLocation(t)
    \/ Return(t)

SpecClients == Init /\ [][NextClients]_vars

(***************************************************************************)
(* SpecSubscribers: clients that are bound to no driver subscribe, their   *)
(* calls overlapping; the calls stay where they complete.                  *)
(***************************************************************************)
NextSubscribers ==
  \E t \in Tasks :
    \/ \E c \in Clients, d \in Drivers :
         /\ ~InFlightFor(c)
         /\ ~Has(clientSubscriptions, c)
         /\ StartSubscribe(t, c, d, FALSE)
    \/ ResumeBusSubscribe(t)
    \/ ResumeProfile(t)
    \/ ResumeLocation(t)

SpecSubscribers == Init /\ [][NextSubscribers]_vars

(***************************************************************************)
(* SpecBus: samples are ingested and delivered by Redis while clients      *)
(* subscribe and unsubscribe.                                              *)
(***************************************************************************)
NextBus ==
  \/ \E t \in Tasks :
       \/ \E c \in Clients, d \in Drivers : ~InFlightFor(c) /\ StartSubscribe(t, c, d, FALSE)
       \/ \E c \in Clients : ~InFlightFor(c) /\ StartUnsubscribe(t, c, FALSE)
       \/ \E d \in Drivers, c \in Coords : StartLocationUpdate(t, d, c, FALSE)
       \/ \E m \in inbox : BusDeliver(t, m)
       \/ Resume(t)
  \/ \E d \in Drivers, c \in Coords : PeerPublish(d, c)

SpecBus == Init /\ [][NextBus]_vars

(***************************************************************************)
(* Spec: clients of the ClientGateway subscribe, stop and disconnect while *)
(* drivers send locations and time passes.                                 *)
(***************************************************************************)
MayHandle == started < MaxGatewayCalls

Next ==
  \/ \E t \in Tasks :
       \/ MayHandle /\ \E c \in Clients, d \in Drivers : ClientSubscribeDriver(t, c, d)
       \/ MayHandle /\ \E h \in activeTimers : TimerFires(t, h)
       \/ MayHandle /\ \E d \in Drivers, c \in Coords : StartLocationUpdate(t, d, c, FALSE)
       \/ ResumeStateLocation(t)
       \/ ResumeStateProfile(t)
       \/ Resume(t)
  \/ \E c \in Clients : HandleDisconnect(c)
  \/ \E c \in Clients : ClientUnsubscribeDriver(c)
  \/ AdvanceTime

Spec == Init /\ [][Next]_vars

(***************************************************************************)
(* SpecPush: clients subscribe and stay connected, drivers send locations, *)
(* the timers tick and time passes.                                        *)
(***************************************************************************)
NextPush ==
  \/ \E t \in Tasks :
       \/ \E c \in Clients, d \in Drivers : ~Handling(c) /\ ClientSubscribeDriver(t, c, d)
       \/ \E h \in activeTimers : TimerFires(t, h)
       \/ \E d \in Drivers, c \in Coords : StartLocationUpdate(t, d, c, FALSE)
       \/ ResumeStateLocation(t)
       \/ ResumeStateProfile(t)
       \/ Resume(t)
  \/ AdvanceTime

SpecPush == Init /\ [][NextPush]_vars

(***************************************************************************)
(* SpecDriver: drivers authenticate, send locations and disconnect, their  *)
(* tokens are revalidated and expire, while clients subscribe.             *)
(***************************************************************************)
NextDriver ==
  \/ \E t \in Tasks :
       \/ \E sock \in Sockets, token \in {0} \cup Tokens : DriverAuthenticate(t, sock, token)
       \/ ResumeAuthenticate(t)
       \/ \E h \in tokenTimers : TokenTimerFires(t, h)
       \/ ResumeRevalidate(t)
       \/ \E sock \in Sockets, data \in LocationInputs : DriverUpdateLocation(t, sock, data)
       \/ \E c \in Clients, d \in Drivers :
            /\ ~InFlightFor(c)
            /\ ~Has(clientSubscriptions, c)
            /\ StartSubscribe(t, c, d, FALSE)
       \/ ResumeBusSubscribe(t)
       \/ ResumeProfile(t)
       \/ ResumeLocation(t)
       \/ ResumePublish(t)
       \/ Return(t)
  \/ \E sock \in Sockets : DriverDisconnect(sock)
  \/ \E k \in Tokens : TokenExpires(k)

SpecDriver == Init /\ [][NextDriver]_vars

(***************************************************************************)
(* SpecState: getDriverLocationAndProfile is called while clients          *)
(* subscribe, drivers send locations and time passes.                      *)
(***************************************************************************)
NextState ==
  \/ \E t \in Tasks :
       \/ \E d \in Drivers : StartGetState(t, d)
       \/ ResumeGetStateLocation(t)
       \/ ResumeGetStateProfile(t)
       \/ \E c \in Clients, d \in Drivers :
            /\ ~InFlightFor(c)
            /\ ~Has(clientSubscriptions, c)
            /\ StartSubscribe(t, c, d, FALSE)
       \/ \E d \in Drivers, c \in Coords : StartLocationUpdate(t, d, c, FALSE)
       \/ ResumeBusSubscribe(t)
       \/ ResumeProfile(t)
       \/ ResumeLocation(t)
       \/ ResumePublish(t)
       \/ Return(t)
  \/ AdvanceTime

SpecState == Init /\ [][NextState]_vars

(***************************************************************************)
(* SpecOnline: isDriverOnline is called while drivers send locations,      *)
(* Redis delivers the samples of other instances and time passes.          *)
(***************************************************************************)
NextOnline ==
  \/ \E t \in Tasks :
       \/ \E d \in Drivers : StartIsOnline(t, d)
       \/ ResumeIsOnline(t)
       \/ \E d \in Drivers, c \in Coords : StartLocationUpdate(t, d, c, FALSE)
       \/ \E m \in inbox : BusDeliver(t, m)
       \/ Return(t)
  \/ \E d \in Drivers, c \in Coords : PeerPublish(d, c)
  \/ AdvanceTime

SpecOnline == Init /\ [][NextOnline]_vars

(***************************************************************************)
(* SpecOutage: the calls of the port run one after another and the Redis   *)
(* commands they await may fail.                                           *)
(***************************************************************************)
NextOutage ==
  \E t \in Tasks :
    \/ \E c \in Clients, d \in Drivers : StartSubscribe(t, c, d, TRUE)
    \/ \E c \in Clients : StartUnsubscribe(t, c, TRUE)
    \/ \E d \in Drivers, c \in Coords : StartLocationUpdate(t, d, c, TRUE)
    \/ Resume(t)
    \/ BusFails(t)

SpecOutage == Init /\ [][NextOutage]_vars

(***************************************************************************)
(* SpecCollaborator: clients subscribe and are pushed to, drivers          *)
(* authenticate and are revalidated, and every request to the auth service *)
(* and to the location service may fail.                                   *)
(***************************************************************************)
NextCollaborator ==
  \E t \in Tasks :
    \/ \E c \in Clients, d \in Drivers :
         ~Has(clientSubscriptions, c) /\ ~Handling(c) /\ ClientSubscribeDriver(t, c, d)
    \/ \E h \in activeTimers : TimerFires(t, h)
    \/ ResumeBusSubscribe(t)
    \/ ResumeProfile(t)
    \/ ResumeLocation(t)
    \/ ResumeStateLocation(t)
    \/ ResumeStateProfile(t)
    \/ \E sock \in Sockets, token \in Tokens : DriverAuthenticate(t, sock, token)
    \/ ResumeAuthenticate(t)
    \/ \E h \in tokenTimers : TokenTimerFires(t, h)
    \/ ResumeRevalidate(t)
    \/ Return(t)

SpecCollaborator == Init /\ [][NextCollaborator]_vars

(***************************************************************************)
(* SpecHandlers: handlers are registered while messages of other           *)
(* publishers arrive and are handed to the handler that is set.            *)
(***************************************************************************)
NextHandlers ==
  \/ \E h \in Handlers : OnDriverLocationUpdate(h)
  \/ \E d \in Drivers, c \in Coords : PeerPublish(d, c)
  \/ \E t \in Tasks :
       \/ \E m \in inbox : BusDeliver(t, m)
       \/ Return(t)

SpecHandlers == Init /\ [][NextHandlers]_vars

(***************************************************************************)
(* SpecRelay: clients subscribe, one sample is handed in, and Redis hands  *)
(* this instance every message it is subscribed to, its own included, for  *)
(* as long as there are any.  A callback that can run does run, and a      *)
(* message Redis holds for this instance is handed over.                   *)
(***************************************************************************)
NoneAccepted == \A d \in Drivers : accepted[d] = <<>>

RelayStart ==
  \E t \in Tasks :
    \/ \E c \in Clients, d \in Drivers : StartSubscribe(t, c, d, TRUE)
    \/ \E d \in Drivers, c \in Coords :
         NoneAccepted /\ StartLocationUpdate(t, d, c, FALSE)

RelayDeliver == \E t \in Tasks : \E m \in inbox : Deliver(t, m)

RelayResume == \E t \in Tasks : Resume(t)

NextRelay == RelayStart \/ RelayDeliver \/ RelayResume

SpecRelay ==
  Init /\ [][NextRelay]_vars /\ WF_vars(RelayDeliver) /\ WF_vars(RelayResume)

(***************************************************************************)
(* SpecSelf: samples are handed in while clients subscribe and unsubscribe *)
(* and the only messages Redis hands this instance are the ones it         *)
(* published itself.  No sample is handed in while a subscribe call is in  *)
(* flight, so the only writers of locationCache that overlap are           *)
(* handleDriverLocationUpdate called for a sample and called for a         *)
(* message.                                                                *)
(***************************************************************************)
NoSubscribeInFlight == \A u \in Tasks : tasks[u].kind # "subscribe"

NextSelf ==
  \/ \E t \in Tasks :
       \/ \E c \in Clients, d \in Drivers : NoneAccepted /\ StartSubscribe(t, c, d, TRUE)
       \/ \E c \in Clients : ~InFlightFor(c) /\ StartUnsubscribe(t, c, FALSE)
       \/ \E d \in Drivers, c \in Coords :
            NoSubscribeInFlight /\ started < MaxSerialCalls /\ Ingest(t, d, c)
       \/ \E m \in inbox : Deliver(t, m)
       \/ Resume(t)
  \/ AdvanceTime

SpecSelf == Init /\ [][NextSelf]_vars

(***************************************************************************)
(* SpecModule: Nest makes the providers of RealtimeModule, then messages   *)
(* of other publishers arrive and are handed to the handler that is set.   *)
(***************************************************************************)
NextModule ==
  \/ \E p \in Providers : ConstructRealtimeService(p)
  \/ \E d \in Drivers, c \in Coords : Bootstrapped /\ PeerPublish(d, c)
  \/ \E t \in Tasks :
       \/ \E m \in inbox : BusDeliver(t, m)
       \/ Return(t)
  \/ Bootstrapped /\ AdvanceTime

SpecModule == InitModule /\ [][NextModule]_vars

(***************************************************************************)
(* Properties.                                                             *)
(***************************************************************************)
Completed(t) == tasks[t].pc \in {"return", "throw"}

Bound(c, d) == Has(clientSubscriptions, c) /\ clientSubscriptions[c] = d

LedgerInvariant ==
  /\ \A d \in Drivers :
       /\ Observers(driverSubscribers, d) # {} <=> \E c \in Clients : Bound(c, d)
       /\ Observers(driverSubscribers, d) # {} <=> d \in busSubscribed
  /\ \A c \in Clients, d \in Drivers :
       Bound(c, d) <=> c \in Observers(driverSubscribers, d)

\* C1: whenever no call of RealtimeService is in flight, for every driver the
\* three agree: its observer set is non-empty, some client is bound to it, and
\* the instance holds the Redis subscription of its channel; and a client is
\* bound to a driver iff it is in that driver's set.
C1_LedgerInvariantAtRest == Quiescent => LedgerInvariant

\* C2: when subscribe and unsubscribe calls run one after another, a call has
\* issued the Redis subscribe for a driver exactly once for each time it made
\* that driver's observer set non-empty, the Redis unsubscribe exactly once
\* for each time it made the set empty, and no other Redis command.
C2_RefCountedBusTransitions ==
  \A t \in Tasks :
    (tasks[t].kind \in {"subscribe", "unsubscribe"} /\ Completed(t)) =>
      /\ tasks[t].pc = "return"
      /\ \A d \in Drivers :
           /\ tasks[t].nSubscribe[d] = tasks[t].nFilled[d]
           /\ tasks[t].nUnsubscribe[d] = tasks[t].nEmptied[d]
           /\ tasks[t].nPublish[d] = 0

\* A subscribe that moved the last observer of one driver to an unwatched one.
C2_Witness ==
  \E t \in Tasks, d, e \in Drivers :
    /\ tasks[t].kind = "subscribe" /\ tasks[t].pc = "return" /\ d # e
    /\ tasks[t].nUnsubscribe[d] = 1 /\ tasks[t].nEmptied[d] = 1
    /\ tasks[t].nSubscribe[e] = 1 /\ tasks[t].nFilled[e] = 1

\* C3: when calls run one after another, a subscribe of a client that was bound
\* to another driver leaves the client out of the former driver's set, in the
\* new driver's set and bound to the new driver; and at rest no client is in
\* the sets of two drivers.
C3_SingleActiveSubscription ==
  /\ \A t \in Tasks :
       (/\ tasks[t].kind = "subscribe" /\ tasks[t].pc = "return"
        /\ tasks[t].prev # <<>> /\ tasks[t].prev[1] # tasks[t].driver) =>
         /\ tasks[t].client \notin Observers(driverSubscribers, tasks[t].prev[1])
         /\ tasks[t].client \in Observers(driverSubscribers, tasks[t].driver)
         /\ Bound(tasks[t].client, tasks[t].driver)
  /\ Quiescent =>
       \A c \in Clients :
         Cardinality({d \in Drivers : c \in Observers(driverSubscribers, d)}) <= 1

C3_Witness ==
  \E t \in Tasks :
    /\ tasks[t].kind = "subscribe" /\ tasks[t].pc = "return"
    /\ tasks[t].prev # <<>> /\ tasks[t].prev[1] # tasks[t].driver
    /\ Observers(driverSubscribers, tasks[t].prev[1]) # {}

\* C4: when an unsubscribe of the last observer of a driver overlaps a
\* subscribe of another client to that driver, then once both have completed
\* every bound client is in its driver's set and the instance holds the Redis
\* subscription of that driver; and no call fails.
C4_NoSubscribeUnsubscribeRace ==
  /\ \A t \in Tasks : tasks[t].pc # "throw"
  /\ Quiescent =>
       \A c \in Clients :
         Has(clientSubscriptions, c) =>
           /\ c \in Observers(driverSubscribers, clientSubscriptions[c])
           /\ clientSubscriptions[c] \in busSubscribed

SubscribersOf(d) == {t \in Tasks : tasks[t].kind = "subscribe" /\ tasks[t].driver = d}

\* C5: when clients bound to no driver subscribe to an unwatched driver in
\* overlapping calls, every call that has completed left its client in the
\* driver's set and bound to the driver, and the calls together issued the
\* Redis subscribe of the driver exactly once.
C5_ConcurrentFirstSubscribers ==
  \A d \in Drivers :
    /\ \A t \in SubscribersOf(d) :
         /\ tasks[t].pc # "throw"
         /\ tasks[t].nSubscribe[d] <= 1
         /\ tasks[t].pc = "return" =>
              /\ tasks[t].client \in Observers(driverSubscribers, d)
              /\ Bound(tasks[t].client, d)
    /\ SubscribersOf(d) # {} =>
         Cardinality({t \in SubscribersOf(d) : tasks[t].nSubscribe[d] = 1}) = 1

\* Two completed calls for one driver, the second of which put its client in
\* the set while the first awaited the Redis subscribe.
C5_Witness ==
  \E t, u \in Tasks, d \in Drivers :
    /\ t # u /\ {t, u} \subseteq SubscribersOf(d)
    /\ tasks[t].pc = "return" /\ tasks[u].pc = "return"
    /\ tasks[t].client # tasks[u].client
    /\ tasks[t].nSubscribe[d] = 1 /\ tasks[t].nFilled[d] = 0
    /\ tasks[u].nFilled[d] = 1

IsLocationUpdate(task) == task.kind \in {"locationUpdate", "busDelivery"}

\* C6: handleDriverLocationUpdate(d, s) puts s in locationCache[d]; it issues
\* the Redis publish exactly once when d had a local observer at that moment
\* and not at all when it had none; and none of its steps changes
\* clientSubscriptions, driverSubscribers or profileCache.
C6_LocalOnlyPropagationGate ==
  /\ [](\A t \in Tasks :
          IsLocationUpdate(tasks[t]) =>
            /\ tasks[t].nPublish =
                 [d \in Drivers |-> IF d = tasks[t].driver /\ tasks[t].watched THEN 1 ELSE 0]
            /\ tasks[t].nSubscribe = NoCounts /\ tasks[t].nUnsubscribe = NoCounts)
  /\ [][\A t \in Tasks :
          (IsLocationUpdate(tasks'[t]) /\ tasks'[t] # tasks[t]) =>
            /\ tasks[t].kind = "idle" =>
                 /\ Has(locationCache', tasks'[t].driver)
                 /\ locationCache'[tasks'[t].driver] = tasks'[t].sample
            /\ UNCHANGED <<clientSubscriptions, driverSubscribers, profileCache>>]_vars

\* An ingested sample of a watched driver and one of an unwatched driver.
C6_Witness ==
  \E t, u \in Tasks :
    /\ tasks[t].kind = "locationUpdate" /\ tasks[t].watched /\ tasks[t].pc = "return"
    /\ tasks[u].kind = "locationUpdate" /\ ~tasks[u].watched /\ tasks[u].pc = "return"

\* C7: a call of the handler registered with the bus puts the sample in the
\* cache and issues no Redis publish.
C7_InboundNotRepublished ==
  \A t \in Tasks : tasks[t].kind = "busDelivery" => tasks[t].nPublish = NoCounts

\* A client is released: it is bound to no driver and in no driver's set.
Released(c) ==
  /\ ~Has(clientSubscriptions, c)
  /\ \A d \in Drivers : c \notin Observers(driverSubscribers, d)

\* C8: once the disconnect of a client is handled and no call is in flight, the
\* client has no timer, is bound to no driver and is in no driver's set, and a
\* driver that no connected client is bound to has no Redis subscription.
C8_DisconnectUnsubscribes ==
  Quiescent =>
    /\ \A c \in Clients \ connected : ~Has(clientIntervals, c) /\ Released(c)
    /\ \A d \in Drivers :
         (\A c \in connected : ~Bound(c, d)) => d \notin busSubscribed

\* C9: since a subscribed client sent unsubscribe-driver, no driver-update
\* event has been delivered to it.
C9_NoUpdateAfterUnsubscribeDriver ==
  \A c \in Clients :
    lastRequest[c] = "unsubscribe-driver" => "driver-update" \notin eventsSince[c]

\* C10: a client whose disconnect has been handled has no timer, in the map
\* or running, and no tick starts for it.
C10_NoZombieTicks ==
  /\ \A c \in Clients \ connected :
       /\ ~Has(clientIntervals, c)
       /\ \A h \in activeTimers : h.client # c
  /\ \A t \in Tasks : tasks[t].kind = "tick" => ~tasks[t].late

\* Task t ends a push in this step: sendDriverUpdate emitted to a connected
\* client, from a timer (kind "tick") or from handleSubscription.
EndsPush(t, kind) ==
  /\ tasks[t].kind = kind \/ (tasks[t].kind = "idle" /\ tasks'[t].kind = kind)
  /\ tasks[t].pc # "done" /\ tasks'[t].pc = "done"
  /\ tasks'[t].client \in connected
  /\ Len(pushed'[tasks'[t].client]) > Len(pushed[tasks'[t].client])
  /\ pushed'[tasks'[t].client][Len(pushed'[tasks'[t].client])].name # "error"

LastPushed(c) == pushed'[c][Len(pushed'[c])]

CadenceOf(ev) ==
  IF ev.name = "driver-update" THEN ONLINE_UPDATE_INTERVAL ELSE OFFLINE_UPDATE_INTERVAL

EventFor(task) ==
  IF task.location = <<>> \/ task.profile = <<>>
  THEN DriverOffline(task.driver, <<>>)
  ELSE IF now - task.location[1].timestamp < TEN_MINUTES
       THEN DriverUpdate(task.driver, task.location[1], task.profile[1])
       ELSE DriverOffline(task.driver, <<task.location[1].timestamp>>)

\* C12: a push emits exactly one event: driver-offline with lastUpdateTime null
\* when the state is absent, driver-update with the coordinates, timestamp and
\* profile of the state when its sample is less than ten minutes old, and
\* driver-offline with the sample's timestamp otherwise; no driver-update is
\* ever emitted for a sample ten minutes old or older.
C12_PushEventByState ==
  [][/\ \A t \in Tasks :
          (EndsPush(t, "tick") \/ EndsPush(t, "handleSubscription")) =>
            pushed'[tasks'[t].client] = Append(pushed[tasks'[t].client], EventFor(tasks'[t]))
     /\ \A c \in Clients :
          (Len(pushed'[c]) > Len(pushed[c]) /\ LastPushed(c).name = "driver-update") =>
            now - LastPushed(c).timestamp[1] < TEN_MINUTES]_vars

\* A timer sent driver-offline carrying the timestamp of a sample that is
\* exactly ten minutes old.
C12_Witness ==
  \E t \in Tasks :
    LET c == tasks[t].client
    IN /\ tasks[t].kind = "tick" /\ tasks[t].pc = "done" /\ c \in connected
       /\ pushed[c] # <<>>
       /\ pushed[c][Len(pushed[c])].name = "driver-offline"
       /\ pushed[c][Len(pushed[c])].timestamp = <<now - TEN_MINUTES>>

\* A timer tick of a connected client bound to its driver ends its push, the
\* last sample a driver handed in for that driver is the same as when the tick
\* started, and it is less than ten minutes old.
TickAfterAccepted(t) ==
  /\ EndsPush(t, "tick")
  /\ Bound(tasks'[t].client, tasks'[t].driver)
  /\ tasks'[t].seen # <<>> /\ accepted[tasks'[t].driver] = tasks'[t].seen
  /\ now - tasks'[t].seen[1].timestamp < TEN_MINUTES

DeliversSeen(t) ==
  /\ LastPushed(tasks'[t].client).name = "driver-update"
  /\ LastPushed(tasks'[t].client).coord = <<tasks'[t].seen[1].coord>>

\* C13: the first timer tick of a connected, subscribed client that starts
\* after a driver handed in sample s, with no later sample handed in, pushes
\* driver-update with the coordinates of s when s is still recent and the
\* profile of the driver is resolved.
C13_EventualDelivery ==
  [][\A t \in Tasks :
       (TickAfterAccepted(t) /\ tasks'[t].profile # <<>>) => DeliversSeen(t)]_vars

\* Task t ends a revalidation of a token that is not valid: the callback of
\* the token validation timer gets an answer that says so.
EndsExpiredRevalidation(t) ==
  /\ tasks[t].kind = "revalidate"
  /\ tasks[t].pc = "awaitValidate"
  /\ tasks'[t].pc = "done"
  /\ ~tasks'[t].validation[1].isValid

\* Socket sock has no binding, no timer handle and no timer that can fire.
Unbound(sock) ==
  /\ ~Has(driverSockets, sock)
  /\ ~Has(tokenValidationTimers, sock)
  /\ \A h \in tokenTimers : h.socket # sock

\* C14: auth expiry.  A revalidation tick of a socket whose token the auth
\* service no longer accepts gets the answer isValid false; at the step where
\* a tick gets that answer the authenticated socket is sent token-expired and
\* is disconnected, and its binding and its revalidation timer are removed.
\* A socket that was sent token-expired is disconnected, so the gateway
\* handles no later update-location of it: no cache changes and nothing is
\* published on its behalf.
C14_AuthExpiry ==
  [][\A t \in Tasks :
       /\ (tasks[t].kind = "revalidate" /\ tasks[t].pc = "awaitValidate"
              /\ tasks'[t].pc = "done" /\ tasks[t].token \notin validTokens)
            => EndsExpiredRevalidation(t)
       /\ EndsExpiredRevalidation(t) =>
            LET sock == tasks[t].socket
            IN /\ sock \in driverConnected => "token-expired" \in socketEvents'[sock]
               /\ sock \notin driverConnected'
               /\ Unbound(sock)'
               /\ UNCHANGED <<locationCache, profileCache, inbox, busQueue>>
       /\ \A sock \in Sockets :
            "token-expired" \in socketEvents[sock] =>
              /\ sock \notin driverConnected
              /\ ~(tasks[t].kind = "idle" /\ tasks'[t].kind = "locationUpdate"
                     /\ tasks'[t].socket = sock /\ tasks'[t].result = "success")]_vars

\* A socket that authenticated with a token that has expired since was sent
\* token-expired by a revalidation tick and is disconnected and unbound.
C14_Witness ==
  \E t \in Tasks :
    /\ tasks[t].kind = "revalidate"
    /\ tasks[t].pc = "done"
    /\ tasks[t].token \notin validTokens
    /\ "token-expired" \in socketEvents[tasks[t].socket]
    /\ tasks[t].socket \notin driverConnected
    /\ Unbound(tasks[t].socket)

\* Task t starts as the update-location of a socket that has a binding.
StartsUpdateLocation(t) ==
  /\ tasks[t].kind = "idle"
  /\ tasks'[t].kind = "locationUpdate"
  /\ Has(driverSockets, tasks'[t].socket)

\* C15: update-location of an authenticated socket with a latitude outside
\* [-90, 90], a longitude outside [-180, 180] or a coordinate that is not a
\* number is answered 'Invalid location data'; handleDriverLocationUpdate is
\* not called, no cache entry changes and nothing is published.
C15_InvalidCoordinatesRejected ==
  [][\A t \in Tasks :
       LET data == tasks'[t].data
       IN (/\ StartsUpdateLocation(t)
           /\ \/ data.latitude.type # "number"
              \/ data.longitude.type # "number"
              \/ data.latitude.value < -90 \/ data.latitude.value > 90
              \/ data.longitude.value < -180 \/ data.longitude.value > 180)
          => /\ tasks'[t].result = "Invalid location data"
             /\ tasks'[t].pc = "throw"
             /\ UNCHANGED <<locationCache, profileCache, inbox, accepted>>]_vars

\* C16: update-location of a socket that has no binding is answered
\* 'Not authenticated'; handleDriverLocationUpdate is not called, no cache
\* entry changes and nothing is published.
C16_UnauthenticatedRejected ==
  [][\A t \in Tasks :
       (/\ tasks[t].kind = "idle"
        /\ tasks'[t].kind = "locationUpdate"
        /\ ~Has(driverSockets, tasks'[t].socket))
       => /\ tasks'[t].result = "Not authenticated"
          /\ tasks'[t].pc = "throw"
          /\ UNCHANGED <<clientSubscriptions, driverSubscribers, locationCache,
                         profileCache, busSubscribed, busQueue, inbox, accepted>>]_vars

\* A socket whose authentication failed sent update-location and was
\* answered 'Not authenticated'.
C16_Witness ==
  \E t, u \in Tasks :
    /\ tasks[t].kind = "locationUpdate"
    /\ tasks[t].result = "Not authenticated"
    /\ tasks[t].pc = "throw"
    /\ tasks[u].kind = "authenticate"
    /\ tasks[u].pc = "throw"
    /\ tasks[u].socket = tasks[t].socket
    /\ ~Has(driverSockets, tasks[t].socket)

\* The token validation timers of socket sock that can fire.
TimersOf(active, sock) == {h \in active : h.socket = sock}

\* C17: authenticate.  Without a token the call fails before it asks
\* validateDriverToken and the socket stays as it was.  When
\* validateDriverToken answers isValid false or no driverId the call fails,
\* no binding and no timer are made and the socket stays connected.  When it
\* answers a driverId the socket is bound to that driver, exactly one
\* revalidation timer of the socket is active and the call returns success
\* with the driverId.
C17_Authenticate ==
  [][\A t \in Tasks :
       LET sock == tasks'[t].socket
       IN /\ (tasks[t].kind = "idle" /\ tasks'[t].kind = "authenticate") =>
               /\ UNCHANGED <<driverSockets, tokenValidationTimers, tokenTimers,
                              driverConnected>>
               /\ tasks'[t].validation = <<>>
               /\ IF tasks'[t].token = 0
                  THEN tasks'[t].pc = "throw" /\ tasks'[t].result = "Access token required"
                  ELSE tasks'[t].pc = "awaitValidate"
          /\ (/\ tasks[t].kind = "authenticate"
              /\ tasks[t].pc = "awaitValidate"
              /\ tasks'[t].pc # "awaitValidate") =>
               LET v == tasks'[t].validation[1]
               IN IF ~v.isValid \/ v.driverId = <<>>
                  THEN /\ tasks'[t].pc = "throw"
                       /\ tasks'[t].result = "Invalid or expired token"
                       /\ UNCHANGED <<driverSockets, tokenValidationTimers, tokenTimers,
                                      driverConnected>>
                  ELSE /\ tasks'[t].pc = "return"
                       /\ tasks'[t].result = "success"
                       /\ tasks'[t].driver = v.driverId[1]
                       /\ Has(driverSockets', sock)
                       /\ driverSockets'[sock] = v.driverId[1]
                       /\ Has(tokenValidationTimers', sock)
                       /\ TimersOf(tokenTimers', sock)
                            = {TokenTimer(sock, tasks'[t].token)}]_vars

\* An authenticate call returned success after an earlier one of the same
\* socket had failed: the socket is bound and has its one timer.
C17_Witness ==
  \E t, u \in Tasks :
    /\ tasks[t].kind = "authenticate"
    /\ tasks[t].pc = "return"
    /\ tasks[t].result = "success"
    /\ tasks[u].kind = "authenticate"
    /\ tasks[u].pc = "throw"
    /\ tasks[u].socket = tasks[t].socket
    /\ Has(driverSockets, tasks[t].socket)
    /\ driverSockets[tasks[t].socket] = tasks[t].driver
    /\ Cardinality(TimersOf(tokenTimers, tasks[t].socket)) = 1

\* C18: a driver socket that has disconnected has no binding and no
\* revalidation timer, and no revalidation tick of it can fire, whatever
\* authenticate call or revalidation tick of it was in flight when it
\* disconnected.
C18_NoBindingAfterDisconnect ==
  \A sock \in Sockets : sock \notin driverConnected => Unbound(sock)

EndsIsOnline(t) ==
  /\ tasks'[t].kind = "isOnline"
  /\ tasks'[t].pc \in {"return", "throw"}
  /\ tasks[t].pc \notin {"return", "throw"}

\* C20: isDriverOnline returns true when the location it resolves, from the
\* cache or else from the driver service, is less than ten minutes old, and
\* false when it resolves none or the sample is ten minutes old or older,
\* whichever of local ingestion, a fetch or a bus delivery put the sample in
\* the cache; the call never throws.
C20_OnlinePredicate ==
  [][\A t \in Tasks :
       EndsIsOnline(t) =>
         LET d == tasks'[t].driver
             resolved == tasks'[t].location
             recent == resolved # <<>> /\ now - resolved[1].timestamp < TEN_MINUTES
         IN /\ tasks[t].kind = "idle" =>
                 Has(locationCache, d) /\ resolved = <<locationCache[d]>>
            /\ tasks'[t].pc = "return"
            /\ tasks'[t].result = (IF recent THEN "true" ELSE "false")]_vars

\* C21: when calls run one after another, a subscribe of a client to the
\* driver it is already bound to ends with the client in that driver's set,
\* bound to that driver, the Redis subscription of the driver held, and the
\* two maps and the Redis subscriptions as they were before the call.
C21_IdempotentResubscribe ==
  \A t \in Tasks :
    (/\ tasks[t].kind = "subscribe" /\ Completed(t)
     /\ tasks[t].prev = <<tasks[t].driver>>) =>
      /\ tasks[t].pc = "return"
      /\ tasks[t].client \in Observers(driverSubscribers, tasks[t].driver)
      /\ Bound(tasks[t].client, tasks[t].driver)
      /\ tasks[t].driver \in busSubscribed
      /\ clientSubscriptions = tasks[t].before[1].k.cs
      /\ driverSubscribers = tasks[t].before[1].k.ds
      /\ busSubscribed = tasks[t].before[1].subs

\* The only observer of a driver subscribed to it again: the call gave the
\* Redis subscription up and took it again.
C21_Witness ==
  \E t \in Tasks :
    /\ tasks[t].kind = "subscribe" /\ tasks[t].pc = "return"
    /\ tasks[t].prev = <<tasks[t].driver>>
    /\ tasks[t].nUnsubscribe[tasks[t].driver] = 1
    /\ tasks[t].nSubscribe[tasks[t].driver] = 1
    /\ driverSubscribers[tasks[t].driver] = {tasks[t].client}

\* C22: when calls run one after another, an unsubscribe of a client that is
\* bound to no driver changes no map and no cache and issues no Redis
\* command.  An unsubscribe of a client bound to driver d takes the client
\* out of the set of d, removes the entry of d and issues the Redis
\* unsubscribe of d exactly when the set became empty, removes the binding of
\* the client, and leaves the bindings of the other clients, the sets of the
\* other drivers and both caches as they were.
C22_UnsubscribeFrame ==
  \A t \in Tasks :
    (tasks[t].kind = "unsubscribe" /\ Completed(t)) =>
      LET c == tasks[t].client
          was == tasks[t].before[1]
      IN /\ tasks[t].pc = "return"
         /\ locationCache = was.k.loc
         /\ profileCache = was.k.prof
         /\ tasks[t].nSubscribe = NoCounts
         /\ tasks[t].nPublish = NoCounts
         /\ IF ~Has(was.k.cs, c)
            THEN /\ clientSubscriptions = was.k.cs
                 /\ driverSubscribers = was.k.ds
                 /\ busSubscribed = was.subs
                 /\ tasks[t].nUnsubscribe = NoCounts
            ELSE LET d == was.k.cs[c]
                     rest == Observers(was.k.ds, d) \ {c}
                 IN /\ clientSubscriptions = Del(was.k.cs, c)
                    /\ \A e \in Drivers \ {d} :
                         Lookup(driverSubscribers, e) = Lookup(was.k.ds, e)
                    /\ IF rest = {}
                       THEN /\ ~Has(driverSubscribers, d)
                            /\ tasks[t].nUnsubscribe = [e \in Drivers |-> IF e = d THEN 1 ELSE 0]
                            /\ busSubscribed = was.subs \ {d}
                       ELSE /\ Lookup(driverSubscribers, d) = <<rest>>
                            /\ tasks[t].nUnsubscribe = NoCounts
                            /\ busSubscribed = was.subs

\* An unsubscribe took the last observer of a driver away while both caches
\* held an entry of that driver and another client stayed bound to another one.
C22_Witness ==
  \E t \in Tasks, e \in Clients :
    /\ tasks[t].kind = "unsubscribe" /\ tasks[t].pc = "return"
    /\ tasks[t].prev # <<>>
    /\ tasks[t].nUnsubscribe[tasks[t].prev[1]] = 1
    /\ Has(locationCache, tasks[t].prev[1])
    /\ Has(profileCache, tasks[t].prev[1])
    /\ e # tasks[t].client /\ Has(clientSubscriptions, e)

\* C23: when calls run one after another, a subscribe never fails, whatever
\* the driver service answers; when it answered null for the profile or for
\* the last known location the cache of that half has no entry of the driver
\* at the end of the call; and the client is bound to the driver, in its set,
\* and the Redis subscription of the driver is held.
C23_SubscribeToleratesNull ==
  \A t \in Tasks :
    (tasks[t].kind = "subscribe" /\ Completed(t)) =>
      /\ tasks[t].pc = "return"
      /\ tasks[t].got.profile = "null" => ~Has(profileCache, tasks[t].driver)
      /\ tasks[t].got.location = "null" => ~Has(locationCache, tasks[t].driver)
      /\ tasks[t].got.profile = "value" => Has(profileCache, tasks[t].driver)
      /\ tasks[t].got.location = "value" => Has(locationCache, tasks[t].driver)
      /\ Bound(tasks[t].client, tasks[t].driver)
      /\ tasks[t].client \in Observers(driverSubscribers, tasks[t].driver)
      /\ tasks[t].driver \in busSubscribed

\* A subscribe got null for the profile and for the location and returned.
C23_Witness ==
  \E t \in Tasks :
    /\ tasks[t].kind = "subscribe" /\ tasks[t].pc = "return"
    /\ tasks[t].got = [profile |-> "null", location |-> "null"]
    /\ ~Has(profileCache, tasks[t].driver)
    /\ ~Has(locationCache, tasks[t].driver)
    /\ Bound(tasks[t].client, tasks[t].driver)

\* C24: when calls run one after another and a Redis subscribe, unsubscribe
\* or publish fails, subscribeToDriverUpdates, unsubscribeFromDriverUpdates
\* and handleDriverLocationUpdate still return: none of them throws.
C24_BusFailureTolerated ==
  \A t \in Tasks :
    tasks[t].kind \in {"subscribe", "unsubscribe", "locationUpdate"} => tasks[t].pc # "throw"

\* Where a task awaits a request of HttpDriverService.
HttpAwaits ==
  {"awaitProfile", "awaitLocation", "awaitStateLocation", "awaitStateProfile",
   "awaitOnlineLocation", "awaitValidate"}

\* C25: whatever its request comes to, getDriverProfile and
\* getLastKnownLocation answer null and validateDriverToken answers isValid
\* false when the request failed; and no task that awaits one of them ends
\* with an error at the step where it gets the answer, except authenticate,
\* which then rejects the call itself with 'Invalid or expired token'.
C25_CollaboratorFailuresDegrade ==
  [][/\ \A d \in Drivers :
          /\ \A r \in ProfileResponses(d) : Caught(r) => GetDriverProfile(d, r) = <<>>
          /\ \A r \in LocationResponses(d) : Caught(r) => GetLastKnownLocation(d, r) = <<>>
     /\ \A k \in {0} \cup Tokens :
          \A r \in ValidationResponses(k) :
            Caught(r) => ValidateDriverToken(k, r) = [isValid |-> FALSE, driverId |-> <<>>]
     /\ \A t \in Tasks :
          (tasks[t].pc \in HttpAwaits /\ tasks'[t].pc # tasks[t].pc) =>
            /\ tasks'[t].pc = "throw" =>
                 /\ tasks[t].kind = "authenticate"
                 /\ tasks'[t].result = "Invalid or expired token"
            /\ tasks[t].kind \in {"authenticate", "revalidate"} =>
                 tasks'[t].validation[1] \in ValidationAnswers(tasks[t].token)]_vars

\* Every request failed: a client that subscribed was pushed driver-offline
\* and the authenticate of a driver with a valid token was rejected.
C25_Witness ==
  \E t, u \in Tasks :
    /\ tasks[t].kind = "handleSubscription" /\ tasks[t].pc = "done"
    /\ tasks[t].location = <<>>
    /\ ~Has(locationCache, tasks[t].driver) /\ ~Has(profileCache, tasks[t].driver)
    /\ Bound(tasks[t].client, tasks[t].driver)
    /\ tasks[u].kind = "authenticate" /\ tasks[u].pc = "throw"
    /\ tasks[u].token \in validTokens
    /\ tasks[u].validation = <<[isValid |-> FALSE, driverId |-> <<>>]>>

\* C26: at most one handler is set at any time, it is the one
\* onDriverLocationUpdate was last called with, and a delivery calls that
\* handler and no handler registered before it.
C26_OneHandler ==
  [][/\ Len(locationUpdateHandler') <= 1
     /\ locationUpdateHandler' = <<registrations'[Len(registrations')]>>
     /\ \A t \in Tasks :
          (tasks[t].kind = "idle" /\ tasks'[t].kind = "busDelivery") =>
            tasks'[t].handler = registrations[Len(registrations)]]_vars

\* A handler was registered in place of the constructor's, then the
\* constructor's again, and a message was handed to the last one after one
\* had been handed to the second.
C26_Witness ==
  /\ registrations = <<CoreHandler, 2, CoreHandler>>
  /\ \E t, u \in Tasks :
       /\ tasks[t].kind = "busDelivery" /\ tasks[t].handler = CoreHandler
       /\ tasks[u].kind = "busDelivery" /\ tasks[u].handler = 2

\* No message for this instance is in flight and no publish is awaited.
RelayQuiet ==
  /\ inbox = {}
  /\ \A t \in Tasks : tasks[t].kind # "busDelivery" /\ tasks[t].pc # "awaitPublish"

\* C27: when one sample is handed in for a driver with a local observer and
\* no other sample is, the publishes for it come to an end: from some point
\* on no message is in flight and nothing is published.
C27_NoRelayLoop == <>[]RelayQuiet

\* C28: once every message this instance published for a driver has been
\* handed to the handler, locationCache holds for that driver the sample
\* that was handed in last.
C28_SelfDeliverySafe ==
  \A d \in Drivers :
    (accepted[d] # <<>> /\ \A m \in inbox : m.driver # d) =>
      /\ Has(locationCache, d)
      /\ JSONStringify(locationCache[d]) = JSONStringify(accepted[d][1])

\* C29: while a driver has no local observer and no call is in flight, the
\* Redis connection holds no subscription that covers the driver's channel
\* and Redis takes in no message about the driver for this instance.
C29_BusInterestGated ==
  [][\A d \in Drivers :
       (Observers(driverSubscribers, d) = {} /\ Quiescent) =>
         /\ ~Delivered(busSubscribed, d)
         /\ \A m \in inbox' \ inbox : m.driver # d]_vars

\* C30: a message published once on a driver's channel is handed to the
\* handler of this instance at most once: the step that publishes it leaves
\* at most one delivery of it for this instance.
C30_AtMostOnce ==
  [][\A d \in Drivers :
       Cardinality({m \in inbox' \ inbox : m.driver = d}) <= 1]_vars

\* C31: a subscribe of a client to the driver it is already bound to issues
\* no Redis unsubscribe and no Redis subscribe, and the Redis subscription of
\* the driver is held all through the call.
C31_ResubscribeIssuesNoBusCall ==
  \A t \in Tasks :
    (tasks[t].kind = "subscribe" /\ tasks[t].prev = <<tasks[t].driver>>) =>
      /\ tasks[t].nUnsubscribe = NoCounts
      /\ tasks[t].nSubscribe = NoCounts
      /\ tasks[t].driver \in busSubscribed

\* C32: one RealtimeService only registers a handler with the bus, and it is
\* the one the gateways use: every delivery calls its handler and puts the
\* delivered sample in its locationCache, the cache a timer tick reads.
C32_OneCoreHandlesDeliveries ==
  [][/\ \A i \in 1..Len(registrations') : registrations'[i] = CoreHandler
     /\ \A t \in Tasks :
          (tasks[t].kind = "idle" /\ tasks'[t].kind = "busDelivery") =>
            /\ tasks'[t].handler = CoreHandler
            /\ Has(locationCache', tasks'[t].driver)
            /\ locationCache'[tasks'[t].driver] = tasks'[t].sample]_vars

\* C33: once the subscribe-driver request of a client is completed and while
\* it has no other request in flight, every event pushed to the client
\* concerns the driver the client is bound to now, and the timer of the
\* client ticks for that driver, whatever tick was in flight before.
C33_PushesConcernCurrentDriver ==
  [][\A c \in Clients :
       (/\ Has(clientSubscriptions, c) /\ Has(clientIntervals, c)
        /\ ~Handling(c) /\ ~Handling(c)') =>
         /\ pushed'[c] # pushed[c] => LastPushed(c).driverId = clientSubscriptions[c]
         /\ Has(clientIntervals', c)
         /\ clientIntervals'[c].driver = clientSubscriptions[c]
         /\ \A h \in activeTimers' : h.client = c => h = clientIntervals'[c]]_vars

\* C34: when calls run one after another and the Redis subscribe of a
\* subscribe call fails, the client is not bound to the driver and the driver
\* has no entry in driverSubscribers once the call has failed; and a
\* subscribe call for a driver whose channel the instance does not hold
\* issues the Redis subscribe.
C34_FailedSubscribeLeavesLedger ==
  \A t \in Tasks :
    /\ (/\ tasks[t].kind = "subscribe" /\ tasks[t].pc = "throw"
        /\ tasks[t].nSubscribe[tasks[t].driver] = 1) =>
         /\ ~Bound(tasks[t].client, tasks[t].driver)
         /\ ~Has(driverSubscribers, tasks[t].driver)
    /\ (/\ tasks[t].kind = "subscribe" /\ tasks[t].pc \in {"awaitProfile", "awaitLocation", "return"}
        /\ tasks[t].driver \notin tasks[t].before[1].subs) =>
         tasks[t].nSubscribe[tasks[t].driver] = 1

\* C35: the callback of a token validation timer that was started for a
\* token other than the one the timer of its socket validates now leaves the
\* binding and the timer of the socket alone; a socket has at most one timer
\* that can fire, the one in tokenValidationTimers; and an authenticate that
\* succeeds leaves the socket with the timer of its own token.
C35_StaleRevalidationHarmless ==
  [][/\ \A t \in Tasks :
          (/\ tasks[t].kind = "revalidate" /\ tasks[t].pc = "awaitValidate"
           /\ tasks'[t].pc = "done"
           /\ Has(tokenValidationTimers, tasks[t].socket)
           /\ tokenValidationTimers[tasks[t].socket].token # tasks[t].token) =>
            /\ driverSockets' = driverSockets
            /\ tokenValidationTimers' = tokenValidationTimers
            /\ tokenTimers' = tokenTimers
     /\ \A h \in tokenTimers' :
          Has(tokenValidationTimers', h.socket) /\ tokenValidationTimers'[h.socket] = h
     /\ \A t \in Tasks :
          (/\ tasks[t].kind = "authenticate" /\ tasks[t].pc = "awaitValidate"
           /\ tasks'[t].pc = "return") =>
            /\ Has(tokenValidationTimers', tasks[t].socket)
            /\ tokenValidationTimers'[tasks[t].socket].token = tasks[t].token]_vars

\* Task t ends an authenticate that succeeds.
AuthenticateSucceeds(t) ==
  /\ tasks[t].kind = "authenticate" /\ tasks[t].pc = "awaitValidate"
  /\ tasks'[t].pc = "return"

\* C36: the binding of a socket is set by an authenticate that succeeds, and
\* to the driver validateDriverToken named, and by nothing else; a sample a
\* socket hands to handleDriverLocationUpdate carries the driver of the
\* binding and the time of the server, whatever the body holds, and changes
\* the cache entry of that driver only.
C36_SampleCarriesBoundDriver ==
  [][/\ \A t \in Tasks :
          AuthenticateSucceeds(t) =>
            /\ Has(driverSockets', tasks[t].socket)
            /\ <<driverSockets'[tasks[t].socket]>> = tasks'[t].validation[1].driverId
     /\ \A sock \in Sockets :
          (Has(driverSockets', sock) /\ Lookup(driverSockets', sock) # Lookup(driverSockets, sock)) =>
            \E t \in Tasks : AuthenticateSucceeds(t) /\ tasks[t].socket = sock
     /\ \A t \in Tasks :
          (/\ tasks[t].kind = "idle" /\ tasks'[t].kind = "locationUpdate"
           /\ tasks'[t].result = "success") =>
            /\ Has(driverSockets, tasks'[t].socket)
            /\ tasks'[t].driver = driverSockets[tasks'[t].socket]
            /\ tasks'[t].sample.driverId = driverSockets[tasks'[t].socket]
            /\ tasks'[t].sample.timestamp = now
            /\ locationCache' = Put(locationCache, tasks'[t].driver, tasks'[t].sample)]_vars

\* A socket bound to one driver sent a body that names another driver and a
\* time of its own, and the sample was cached for the driver of the binding.
C36_Witness ==
  \E t \in Tasks :
    /\ tasks[t].kind = "locationUpdate" /\ tasks[t].result = "success"
    /\ tasks[t].data.extra # <<>>
    /\ tasks[t].data.extra[1].driverId # tasks[t].driver
    /\ tasks[t].data.extra[1].timestamp # tasks[t].sample.timestamp
    /\ Has(locationCache, tasks[t].driver)
    /\ locationCache[tasks[t].driver] = tasks[t].sample
    /\ ~Has(locationCache, tasks[t].data.extra[1].driverId)

\* C37: a socket has a binding in driverSockets exactly when it has a timer
\* in tokenValidationTimers, and that timer can fire; the two are made at
\* the step where an authenticate succeeds and dropped at one step, the
\* disconnect of the socket or the callback that finds the token expired.
C37_BindingIffTimer ==
  [][\A sock \in Sockets :
       /\ Has(driverSockets', sock) <=> Has(tokenValidationTimers', sock)
       /\ Has(tokenValidationTimers', sock) => tokenValidationTimers'[sock] \in tokenTimers'
       /\ (~Has(driverSockets, sock) /\ Has(driverSockets', sock)) =>
            \E t \in Tasks : AuthenticateSucceeds(t) /\ tasks[t].socket = sock
       /\ (Has(driverSockets, sock) /\ ~Has(driverSockets', sock)) =>
            /\ sock \notin driverConnected'
            /\ TimersOf(tokenTimers', sock) = {}
            /\ \/ tasks' = tasks /\ sock \in driverConnected
               \/ \E t \in Tasks : EndsExpiredRevalidation(t) /\ tasks[t].socket = sock]_vars

\* The binding and the timer an authenticate made for a socket were both
\* dropped by the callback that found the token expired.
C37_Witness ==
  \E t, u \in Tasks :
    /\ tasks[t].kind = "authenticate" /\ tasks[t].pc = "return"
    /\ tasks[u].kind = "revalidate" /\ tasks[u].pc = "done"
    /\ tasks[u].socket = tasks[t].socket /\ tasks[u].token = tasks[t].token
    /\ ~tasks[u].validation[1].isValid
    /\ ~Has(driverSockets, tasks[t].socket)
    /\ ~Has(tokenValidationTimers, tasks[t].socket)
    /\ TimersOf(tokenTimers, tasks[t].socket) = {}

\* The timers of client c among a set of timers.
ClientTimers(timers, c) == {h \in timers : h.client = c}

\* Task t is a handleSubscription call that takes a step without finishing.
HandleSubscriptionAwaits(t) ==
  /\ tasks'[t] # tasks[t]
  /\ tasks'[t].kind = "handleSubscription"
  /\ tasks'[t].pc # "done"

\* C38: handleSubscription emits nothing and touches no timer while it awaits
\* RealtimeCore.subscribe and the state; in the step where it returns success to
\* a connected client it emits exactly one event, for the driver asked for, and
\* then schedules the 5 s timer for that driver, which is then the client's
\* only active timer: every other timer the client had is cancelled.
C38_SubscribeThenPushThenTimer ==
  [][\A t \in Tasks :
       /\ HandleSubscriptionAwaits(t) =>
            /\ pushed'[tasks'[t].client] = pushed[tasks'[t].client]
            /\ clientIntervals' = clientIntervals
            /\ activeTimers' = activeTimers
       /\ EndsPush(t, "handleSubscription") =>
            LET c == tasks'[t].client
                h == Timer(c, tasks'[t].driver, ONLINE_UPDATE_INTERVAL)
            IN /\ Len(pushed'[c]) = Len(pushed[c]) + 1
               /\ SubSeq(pushed'[c], 1, Len(pushed[c])) = pushed[c]
               /\ LastPushed(c).driverId = tasks'[t].driver
               /\ Has(clientIntervals', c) /\ clientIntervals'[c] = h
               /\ ClientTimers(activeTimers', c) = {h}
               /\ \A old \in ClientTimers(activeTimers, c) :
                    old # h => old \notin activeTimers']_vars

\* A connected client that had a timer for one driver subscribed to another:
\* the handler returned, the last event concerns the new driver and the 5 s
\* timer for the new driver is the client's only active timer.
C38_Witness ==
  \E t \in Tasks :
    LET c == tasks[t].client
        h == Timer(c, tasks[t].driver, ONLINE_UPDATE_INTERVAL)
    IN /\ tasks[t].kind = "handleSubscription" /\ tasks[t].pc = "done"
       /\ c \in connected
       /\ tasks[t].prev # <<>> /\ tasks[t].prev # <<tasks[t].driver>>
       /\ Len(pushed[c]) >= 2
       /\ pushed[c][Len(pushed[c])].driverId = tasks[t].driver
       /\ pushed[c][Len(pushed[c]) - 1].driverId # tasks[t].driver
       /\ Has(clientIntervals, c) /\ clientIntervals[c] = h
       /\ ClientTimers(activeTimers, c) = {h}

\* Task t asks the driver service for the profile of driver d in this step.
FetchesProfile(t, d) ==
  /\ tasks'[t].driver = d
  /\ tasks'[t].pc \in {"awaitProfile", "awaitStateProfile"}
  /\ tasks[t].pc \notin {"awaitProfile", "awaitStateProfile"}

\* A call of handleDriverLocationUpdate for driver d starts in this step.
HandlesLocationUpdate(d) ==
  \E t \in Tasks :
    /\ tasks[t].kind = "idle"
    /\ tasks'[t].kind \in {"locationUpdate", "busDelivery"}
    /\ tasks'[t].driver = d

\* C39: no step removes an entry of profileCache or locationCache; once
\* profileCache holds the profile of a driver no call asks the driver service
\* for it; and an entry of locationCache changes only in a step of
\* handleDriverLocationUpdate.
C39_CachesOnlyGrow ==
  [][\A d \in Drivers :
       /\ Has(locationCache, d) => Has(locationCache', d)
       /\ Has(profileCache, d) =>
            /\ Has(profileCache', d)
            /\ \A t \in Tasks : ~FetchesProfile(t, d)
       /\ (Has(locationCache, d) /\ locationCache'[d] # locationCache[d]) =>
            HandlesLocationUpdate(d)]_vars
====
